---- MODULE Spec2Model ----
(***************************************************************************)
(* The step-execution and status-reporting engine of wsl_starter, in its   *)
(* two revisions imcv2_image_creator.py and imcv2_wsl_runner.py:           *)
(*   - the stage functions (run_*_steps), which run a table of steps and   *)
(*     raise StepError on the first step that returns non-zero;            *)
(*   - the step runners wsl_runner_run_process / ws_runner_run_function;   *)
(*   - wsl_runner_print_status and the progress indicator                  *)
(*     (wsl_runner_set_spinner / wsl_runner_spinner_thread);               *)
(*   - wsl_runner_exec_process with its child process, pipes and timeout.  *)
(*                                                                         *)
(* Specifications:                                                         *)
(*   Spec         one stage function run by the main thread alone          *)
(*   SpecSpinner  one stage function with the indicator threads interleaved*)
(*   SpecStep     one direct call of a step runner, inputs drawn from sets *)
(*   SpecExec     one call of wsl_runner_exec_process, child and clock     *)
(***************************************************************************)
EXTENDS Integers, Sequences, FiniteSets, TLC

\* ------------------------------------------------------------------ bounds

\* Longest step table of a stage run by the main thread alone.
MaxSteps == 3

\* Longest step table of a stage run with the indicator threads interleaved.
MaxSpinnerSteps == 2

\* The process invoker: lines a child writes, lines a pipe holds before the child
\* blocks, the largest timeout argument and the last clock tick.
MaxLines == 2
PipeCap == 1
MaxTimeout == 2
MaxTime == 3

\* wsl_runner_main: how far outside the valid range start_step is drawn.
StartStepMargin == 2

\* ------------------------------------------------------- program constants

\* The reserved status of a timed-out process.
TIMEOUT_STATUS == 124

\* The HTTP status for which curl's exit status is kept.
HTTP_OK == 200

\* The two revisions of the program.
Variants == {"imcv2_image_creator", "imcv2_wsl_runner"}

\* class InfoType(int, Enum): the revisions give WARNING and DONE different values,
\* and only imcv2_image_creator has ERROR.
InfoType(v, name) ==
    CASE name = "OK" -> 0
      [] name = "ERROR" -> -1
      [] name = "WARNING" -> IF v = "imcv2_image_creator" THEN 10001 ELSE 1001
      [] name = "DONE" -> IF v = "imcv2_image_creator" THEN 10002 ELSE 1000

\* class TextType(Enum)
TextType == {"PREFIX", "SUFFIX", "BOTH"}

\* ------------------------------------------------------------ the stages

\* The stage functions wsl_runner_main calls, per revision.
StageFunctions(v) ==
    IF v = "imcv2_image_creator"
    THEN {"run_pre_prerequisites_local_steps", "run_initial_setup_steps",
          "run_user_creation_steps", "run_user_shell_steps", "run_time_zone_steps",
          "run_kerberos_steps", "run_install_system_packages", "run_install_git_config",
          "run_install_pyenv", "run_post_install_steps"}
    ELSE {"run_pre_prerequisites_steps", "run_initial_setup_steps",
          "run_user_creation_steps", "run_time_zone_steps", "run_kerberos_steps",
          "run_user_shell_steps", "run_install_system_packages",
          "run_install_user_packages", "run_install_pyenv", "run_post_install_steps"}

\* The prerequisites stage runs callables through ws_runner_run_function; every
\* other stage runs external commands through wsl_runner_run_process.
StageUsesFunction(st) ==
    st \in {"run_pre_prerequisites_local_steps", "run_pre_prerequisites_steps"}

\* The stages that end with a Both-phase DONE banner: all but Kerberos and time zone.
StageHasBanner(st) == st \notin {"run_kerberos_steps", "run_time_zone_steps"}

\* The message of the StepError a stage raises for a failed step.
StepErrorMessage(st, description) ==
    IF st = "run_time_zone_steps"
    THEN <<"Failed to complete step">>
    ELSE <<"Failed during step: ", description>>

\* new_line as wsl_runner_main passes it to the stage: imcv2_image_creator passes
\* new_line = not hidden (= spinner_disabled) to every stage but the prerequisites;
\* imcv2_wsl_runner passes nothing, so the default False.
StageNewLine(v, st, disabled) ==
    IF v = "imcv2_image_creator" /\ ~StageUsesFunction(st) THEN disabled ELSE FALSE

\* Descriptions of the steps of a table, by position.
StepDescriptions ==
    <<"check disk", "download file", "install", "restart session", "final sync">>

\* One row of steps_commands: (description, process, args, *ignore_errors). The
\* tables of the stages name only the command "wsl"; the rows of the prerequisites
\* stage are (description, func, args) and carry no ignore_errors.
StepRow(st, k, ignore) ==
    [description |-> StepDescriptions[k],
     target |-> IF StageUsesFunction(st) THEN "function" ELSE "process",
     process |-> IF StageUsesFunction(st) THEN "callable" ELSE "wsl",
     ignore_errors |-> ignore]

\* The step tables of a stage, of 1 to max rows.
StepTables(st, max) ==
    UNION { { [k \in 1..n |-> StepRow(st, k, f[k])] :
                f \in [1..n -> IF StageUsesFunction(st) THEN {FALSE} ELSE BOOLEAN] } :
            n \in 1..max }

\* -------------------------------------------------------- the step runners

\* Exit codes of a child process.
ExitCodes == {0, 1}

\* First-line values curl's -w "%{http_code}" produces (0: none parsed).
HttpCodes == {0, 200, 404}

\* Status wsl_runner_exec_process returns when the executable is not found.
NotFoundStatus(v) == IF v = "imcv2_image_creator" THEN 1 ELSE 127

\* The (status, ext_status) pairs wsl_runner_exec_process returns: the child's exit
\* code or 124 with the extended status (non-zero only for curl), or the pair of
\* one of the exception handlers.
ExecResults(v, process) ==
    { <<c, e>> : c \in ExitCodes \cup {TIMEOUT_STATUS},
                 e \in IF process = "curl" THEN HttpCodes ELSE {0} }
    \cup { <<NotFoundStatus(v), 0>>, <<1, 0>> }

\* A faulty RunProcessStatus: the curl override is missing.
RunProcessStatusNoCurl(process, ignore_errors, exec_status, ext_status) ==
    IF ignore_errors THEN 0 ELSE exec_status

\* A faulty RunProcessStatus: ignore_errors is not applied.
RunProcessStatusNoIgnore(process, ignore_errors, exec_status, ext_status) ==
    IF process = "curl" /\ ext_status # HTTP_OK THEN ext_status ELSE exec_status

\* wsl_runner_run_process, between its Prefix and its Suffix.
RunProcessStatus(process, ignore_errors, exec_status, ext_status) ==
    LET s1 == IF ignore_errors THEN 0 ELSE exec_status
    IN IF process = "curl" /\ ext_status # HTTP_OK THEN ext_status ELSE s1

\* The classes an exception is an instance of.
Bases(e) ==
    CASE e = "FileNotFoundError" -> {"FileNotFoundError", "OSError", "Exception"}
      [] e = "OSError" -> {"OSError", "Exception"}
      [] e = "ValueError" -> {"ValueError", "Exception"}
      [] e = "UnicodeDecodeError" -> {"UnicodeDecodeError", "ValueError", "Exception"}
      [] e = "UnicodeEncodeError" -> {"UnicodeEncodeError", "ValueError", "Exception"}
      [] e = "AttributeError" -> {"AttributeError", "Exception"}
      [] OTHER -> {"Exception"}

\* The ways wsl_runner_exec_process comes to return the pair r: the child's exit
\* code, the timeout, or one of its exception handlers.
ExecHow(v, r) ==
    (IF r[1] \in ExitCodes THEN {"exit"} ELSE {})
    \cup (IF r[1] = TIMEOUT_STATUS THEN {"timeout"} ELSE {})
    \cup (IF r \in {<<NotFoundStatus(v), 0>>, <<1, 0>>} THEN {"exception"} ELSE {})

\* What a step run by wsl_runner_run_process prints about its failure: only the
\* exception handlers of wsl_runner_exec_process print a message.
ProcessLogged(how) == IF how = "exception" THEN << "Error: exception" >> ELSE << >>

\* The exceptions a callable raises.
CallableExceptions == {"ValueError", "OSError", "Exception"}

\* What calling the step's callable does: it returns a value or raises.
CallableOutcomes ==
    { [raises |-> FALSE, value |-> x, exception |-> "none"] : x \in ExitCodes }
    \cup { [raises |-> TRUE, value |-> x, exception |-> e] :
              x \in ExitCodes, e \in CallableExceptions }

\* A target that is not callable: ws_runner_run_function raises ValueError itself.
CallOutcomes(process) ==
    IF process = "callable" THEN CallableOutcomes
    ELSE { [raises |-> TRUE, value |-> 0, exception |-> "ValueError"] }

\* A faulty RunFunctionCatches: the clause is `except ValueError`.
RunFunctionCatchesValueError(outcome) ==
    ~outcome.raises \/ "ValueError" \in Bases(outcome.exception)

\* `except Exception` of ws_runner_run_function catches what was raised.
RunFunctionCatches(outcome) ==
    ~outcome.raises \/ "Exception" \in Bases(outcome.exception)

\* What a step run by ws_runner_run_function prints about its failure.
FunctionLogged(outcome) ==
    IF outcome.raises THEN << "Error executing" >> ELSE << >>

\* The status of the callable before ignore_errors: an exception becomes 1.
CallableStatus(outcome) == IF outcome.raises THEN 1 ELSE outcome.value

\* ws_runner_run_function, between its Prefix and its Suffix.
RunFunctionStatus(ignore_errors, outcome) ==
    IF ignore_errors THEN 0 ELSE CallableStatus(outcome)

\* ------------------------------------------------------- the status token

\* One write to the terminal, as the mock sink records it.
Write(by, text, n) == [by |-> by, text |-> text, n |-> n]

\* A Python integer n (unbounded) as the pair hi, lo with n = hi * 2^16 + lo and
\* 0 <= lo < 2^16, so that statuses up to 2^32 stay within the checker's integers.
Halves(n) == [hi |-> n \div 65536, lo |-> n % 65536]

\* A faulty WrapStatus: 2 ** 32 - 1 is taken off instead of 2 ** 32.
WrapStatusOffByOne(ret_val) ==
    IF ret_val.hi >= 32768
    THEN (ret_val.hi - 65536) * 65536 + ret_val.lo + 1
    ELSE ret_val.hi * 65536 + ret_val.lo

\* The 32-bit signed wrap applied to the number shown in " Error (N)":
\* (ret_val - 2 ** 32) if ret_val >= 2 ** 31 else ret_val, on the halves of ret_val:
\* ret_val >= 2 ** 31 is hi >= 2 ** 15, and 2 ** 32 is 2 ** 16 taken off hi.
WrapStatus(ret_val) ==
    IF ret_val.hi >= 32768
    THEN (ret_val.hi - 65536) * 65536 + ret_val.lo
    ELSE ret_val.hi * 65536 + ret_val.lo

\* The token the Suffix phase writes for ret_val, given by its halves (none for OK).
SuffixToken(v, ret_val) ==
    IF ret_val = Halves(InfoType(v, "OK")) THEN << >>
    ELSE IF ret_val = Halves(InfoType(v, "DONE")) THEN << Write("main", " OK", 0) >>
    ELSE IF ret_val = Halves(InfoType(v, "WARNING"))
         THEN << Write("main", " Warning", 0) >>
    ELSE IF ret_val = Halves(TIMEOUT_STATUS) THEN << Write("main", " Timeout", 0) >>
    ELSE << Write("main", " Error", WrapStatus(ret_val)) >>

\* ------------------------------------------------------------------ state

VARIABLES
    variant,            \* which revision runs
    spinner_disabled,   \* global: progress indication disabled (imcv2_image_creator)
    spinner_active,     \* global: the indicator's "still active" flag
    progress_threads,   \* the indicator threads started so far: how many at each position
    sink,               \* mock terminal: the writes of the current status row
    stage,              \* the stage function that runs ("" for a direct step call)
    steps_commands,     \* its step table
    new_line,           \* its new_line argument
    step,               \* the row the for loop is at
    pc,                 \* the main thread's position
    ps,                 \* the arguments of the wsl_runner_print_status call in progress
    ps_call,            \* the arguments of a direct wsl_runner_print_status call
    status,             \* the step runner's local status
    executed,           \* history: descriptions of the steps run, in order
    true_status,        \* history: each run step's (status, ext_status) before the policy
    returned,           \* history: the status each step runner call returned
    raised,             \* history: the StepErrors raised
    logged,             \* history: the error messages each step printed while it ran
    x_process,          \* wsl_runner_exec_process: its process argument
    x_hidden,           \* its hidden argument
    x_timeout,          \* its timeout argument, in clock ticks
    x_pc,               \* its position
    x_log_lines,        \* the lines it has captured, in read order
    x_printed,          \* the lines it has printed to the console
    x_printed_lines,    \* imcv2_wsl_runner's count of stdout lines read
    x_ext_status,       \* its ext_status local
    x_result,           \* what it returned: << >> until it returns
    x_exception,        \* history: the exception raised inside the call, or "none"
    x_raised,           \* the exception that escaped to the caller, or "none"
    proc,               \* the child: state, exit code, which streams it holds open
    pipe_stdout,        \* lines written by the child and not yet read
    pipe_stderr,
    written,            \* the number of lines the child has written
    now,                \* clock ticks since the child was spawned
    wait_start,         \* the tick at which proc.wait was entered
    at_deadline,        \* history: the child's state x_timeout ticks after the spawn
    child_wrote,        \* history: the lines the child has written, with their stream
    child_plan,         \* the streams the child still writes a line to before it exits
    start_step,         \* wsl_runner_main: args.start_step
    m_pc,               \* its position
    m_i,                \* the index of the stage its loop is at (zero-based)
    m_exc,              \* the exception its try block is handling, or "none"
    m_result,           \* its return value: << >> until it returns
    m_ran,              \* history: the indexes of the stages called, in order
    m_outcomes,         \* history: how each called stage ended
    m_console,          \* history: cursor sequences and handler messages written
    input_string,       \* wsl_runner_console_decoder: its argument, as code points
    d_pc,               \* its position
    d_result,           \* what it returned: << >> until it returns
    d_raised,           \* the exception that escaped to the caller, or "none"
    d_again,            \* what a second call, on the first one's result, returned
    dl,                 \* wsl_runner_download_resources: its arguments, locals, result
    wt,                 \* wsl_runner_is_cmd_in_windows_terminal: its locals, result
    ind                 \* the indicator's threads one by one, and the main thread's steps

vars == <<variant, spinner_disabled, spinner_active, progress_threads, sink, stage,
          steps_commands, new_line, step, pc, ps, ps_call, status, executed, true_status,
          returned, raised, logged, x_process, x_hidden, x_timeout, x_pc, x_log_lines,
          x_printed, x_printed_lines, x_ext_status, x_result, x_exception, x_raised,
          proc, pipe_stdout, pipe_stderr, written, now, wait_start, at_deadline,
          start_step, m_pc, m_i, m_exc, m_result, m_ran, m_outcomes, m_console,
          input_string, d_pc, d_result, d_raised, d_again, child_wrote, child_plan,
          dl, wt, ind>>

\* The state of a wsl_runner_console_decoder call.
decoder == <<input_string, d_pc, d_result, d_raised, d_again>>

\* The state of the two helper functions modelled on their own.
helpers == <<dl, wt, ind>>

\* The state of wsl_runner_main.
driver == <<start_step, m_pc, m_i, m_exc, m_result, m_ran, m_outcomes, m_console>>

\* The state of a wsl_runner_exec_process call and of its child.
exec == <<x_process, x_hidden, x_timeout, x_pc, x_log_lines, x_printed,
          x_printed_lines, x_ext_status, x_result, x_exception, x_raised, proc,
          pipe_stdout, pipe_stderr, written, now, wait_start, at_deadline,
          child_wrote, child_plan>>

config == <<variant, spinner_disabled, stage, steps_commands, new_line, ps_call>>
history == <<executed, true_status, returned, raised, logged>>

\* Where an indicator thread can be: at the loop test, before the glyph write,
\* before the backspace write, or returned.
ThreadPositions == {"test", "glyph", "bs", "exited"}

\* No wsl_runner_print_status call in progress.
NoCall == [text_type |-> "", description |-> "", new_line |-> FALSE,
           ret_val |-> Halves(0),
           ret_pc |-> ""]

PrintStatusCall(text_type, description, nl, ret_val, ret_pc) ==
    [text_type |-> text_type, description |-> description, new_line |-> nl,
     ret_val |-> Halves(ret_val), ret_pc |-> ret_pc]

\* The display modes: only imcv2_image_creator has the spinner_disabled flag.
DisplayModes(v) == IF v = "imcv2_image_creator" THEN BOOLEAN ELSE {FALSE}

\* No child: the process invoker before Popen.
NoChild == [state |-> "none", exit_code |-> 0, stdout_open |-> FALSE,
            stderr_open |-> FALSE]

\* The locals of wsl_runner_exec_process at its entry.
InitExecLocals ==
    /\ x_log_lines = << >>
    /\ x_printed = << >>
    /\ x_printed_lines = 0
    /\ x_ext_status = 0
    /\ x_result = << >>
    /\ x_exception = "none"
    /\ x_raised = "none"
    /\ proc = NoChild
    /\ pipe_stdout = << >>
    /\ pipe_stderr = << >>
    /\ written = 0
    /\ now = 0
    /\ wait_start = 0
    /\ at_deadline = "pending"
    /\ child_wrote = << >>

\* The engine specifications take the invoker's result as a whole (ExecResults).
ExecIdle ==
    /\ x_process = ""
    /\ x_hidden = TRUE
    /\ x_timeout = 0
    /\ x_pc = "idle"
    /\ child_plan = << >>
    /\ InitExecLocals

\* The main thread before a stage function or step runner is entered.
InitMain ==
    /\ spinner_active = FALSE
    /\ progress_threads = [p \in ThreadPositions |-> 0]
    /\ sink = << >>
    /\ step = 1
    /\ pc = "loop"
    /\ ps = NoCall
    /\ ps_call = NoCall
    /\ status = 0
    /\ executed = << >>
    /\ true_status = << >>
    /\ returned = << >>
    /\ raised = << >>
    /\ logged = << >>

\* wsl_runner_main not entered: the stage or step runner is called on its own.
DriverIdle ==
    /\ start_step = 0
    /\ m_pc = "idle"
    /\ m_i = 0
    /\ m_exc = "none"
    /\ m_result = << >>
    /\ m_ran = << >>
    /\ m_outcomes = << >>
    /\ m_console = << >>

\* wsl_runner_console_decoder not called on its own.
DecoderIdle ==
    /\ input_string = << >>
    /\ d_pc = "idle"
    /\ d_result = << >>
    /\ d_raised = "none"
    /\ d_again = << >>

\* wsl_runner_download_resources not called.
NoDownload == [pc |-> "idle", proxy_server |-> "None", intel_proxy_detected |-> "True",
               args |-> << >>, result |-> << >>, returned |-> << >>]

\* wsl_runner_is_cmd_in_windows_terminal not called.
NoWalk == [pc |-> "idle", ancestors |-> << >>, current_pid |-> 0, found_cmd |-> FALSE,
           found_terminal |-> FALSE, returned |-> << >>]

\* No step run with the indicator's threads told apart.
NoIndicator == [pc |-> "idle", steps |-> 0, threads |-> << >>, message |-> FALSE,
                glyph_after_message |-> FALSE]

HelpersIdle == dl = NoDownload /\ wt = NoWalk /\ ind = NoIndicator

InitEngine == ExecIdle /\ DriverIdle /\ DecoderIdle /\ HelpersIdle /\ InitMain

\* A stage function called by wsl_runner_main.
Init ==
    /\ variant \in Variants
    /\ spinner_disabled \in DisplayModes(variant)
    /\ stage \in StageFunctions(variant)
    /\ steps_commands \in StepTables(stage, MaxSteps)
    /\ new_line = StageNewLine(variant, stage, spinner_disabled)
    /\ InitEngine

\* ------------------------------------------------- wsl_runner_print_status

\* The position after the Prefix part of the call.
AfterPrefix(call) ==
    IF call.text_type \in {"BOTH", "SUFFIX"} THEN "ps_stop" ELSE "ps_newline"

\* The thread's position once started: imcv2_image_creator's thread returns at once
\* when the indicator is disabled.
SpinnerThreadEntry(disabled) == IF disabled THEN "exited" ELSE "test"

\* threads with one more thread at position p / with one thread moved from p to q.
ThreadStarted(threads, p) == [threads EXCEPT ![p] = @ + 1]
ThreadMoved(threads, p, q) == [threads EXCEPT ![p] = @ - 1, ![q] = @ + 1]

\* A faulty SetSpinnerOn: spinner_disabled is not looked at.
SetSpinnerOnAlways ==
    /\ spinner_active' = TRUE
    /\ progress_threads' =
           ThreadStarted(progress_threads, SpinnerThreadEntry(spinner_disabled))

\* wsl_runner_set_spinner(True): nothing when disabled, else the flag and a thread.
SetSpinnerOn ==
    IF spinner_disabled
    THEN UNCHANGED <<spinner_active, progress_threads>>
    ELSE /\ spinner_active' = TRUE
         /\ progress_threads' =
                ThreadStarted(progress_threads, SpinnerThreadEntry(spinner_disabled))

\* Prefix or Both with a description: the row is erased and the description written,
\* then (Prefix only) the indicator is started.
PrintPrefix ==
    /\ pc = "ps_prefix"
    /\ IF ps.text_type \in {"BOTH", "PREFIX"} /\ ps.description # ""
       THEN /\ sink' = << Write("main", "prefix", 0) >>
            /\ IF ps.text_type # "BOTH"
               THEN SetSpinnerOn
               ELSE UNCHANGED <<spinner_active, progress_threads>>
       ELSE UNCHANGED <<sink, spinner_active, progress_threads>>
    /\ pc' = AfterPrefix(ps)
    /\ UNCHANGED <<config, exec, decoder, helpers, driver, step, ps, status, history>>

\* Suffix or Both: wsl_runner_set_spinner(False) clears the flag. With the indicator
\* disabled imcv2_image_creator skips the whole block, token included.
PrintStop ==
    /\ pc = "ps_stop"
    /\ IF spinner_disabled
       THEN /\ pc' = "ps_newline"
            /\ UNCHANGED spinner_active
       ELSE /\ spinner_active' = FALSE
            /\ pc' = "ps_bs"
    /\ UNCHANGED <<config, exec, decoder, helpers, driver, progress_threads, sink, step, ps,
                   status, history>>

\* wsl_runner_set_spinner(False), after its settle delay: the backspace.
PrintBackspace ==
    /\ pc = "ps_bs"
    /\ sink' = Append(sink, Write("main", "\\b", 0))
    /\ pc' = "ps_token"
    /\ UNCHANGED <<config, exec, decoder, helpers, driver, spinner_active, progress_threads,
                   step, ps, status, history>>

\* The status token chosen by ret_val.
PrintToken ==
    /\ pc = "ps_token"
    /\ sink' = sink \o SuffixToken(variant, ps.ret_val)
    /\ pc' = "ps_newline"
    /\ UNCHANGED <<config, exec, decoder, helpers, driver, spinner_active, progress_threads,
                   step, ps, status, history>>

\* The trailing newline, and the return to the caller.
PrintNewline ==
    /\ pc = "ps_newline"
    /\ sink' = IF ps.new_line THEN Append(sink, Write("main", "\\n", 0)) ELSE sink
    /\ pc' = ps.ret_pc
    /\ ps' = NoCall
    /\ UNCHANGED <<config, exec, decoder, helpers, driver, spinner_active, progress_threads,
                   step, status, history>>

PrintStatus == PrintPrefix \/ PrintStop \/ PrintBackspace \/ PrintToken \/ PrintNewline

\* --------------------------------- wsl_runner_run_process / run_function

\* The loop takes the next row and calls the step runner, which prints the Prefix.
StepCall ==
    /\ pc = "loop"
    /\ step <= Len(steps_commands)
    /\ executed' = Append(executed, steps_commands[step].description)
    /\ ps' = PrintStatusCall("PREFIX", steps_commands[step].description, new_line,
                             InfoType(variant, "OK"), "exec")
    /\ pc' = "ps_prefix"
    /\ UNCHANGED <<config, exec, decoder, helpers, driver, spinner_active, progress_threads,
                   sink, step, status, true_status, returned, raised, logged>>

\* A faulty StepExec: the step runner returns without reporting the Suffix.
StepExecNoSuffix ==
    /\ pc = "exec"
    /\ \E r \in ExecResults(variant, steps_commands[step].process) :
          /\ status' = RunProcessStatus(steps_commands[step].process,
                                        steps_commands[step].ignore_errors, r[1], r[2])
          /\ true_status' = Append(true_status, [status |-> r[1], ext_status |-> r[2]])
    /\ logged' = Append(logged, << >>)
    /\ pc' = "return"
    /\ UNCHANGED <<config, exec, decoder, helpers, driver, spinner_active, progress_threads,
                   sink, step, ps, executed, returned, raised>>

\* The work of the step, the ignore_errors policy, and the call of the Suffix.
\* An exception the step runner does not catch leaves it before the Suffix.
StepExec ==
    /\ pc = "exec"
    /\ LET row == steps_commands[step]
       IN IF row.target = "process"
          THEN \E r \in ExecResults(variant, row.process) :
               \E how \in ExecHow(variant, r) :
                 /\ status' = RunProcessStatus(row.process, row.ignore_errors, r[1], r[2])
                 /\ true_status' =
                        Append(true_status, [status |-> r[1], ext_status |-> r[2]])
                 /\ logged' = Append(logged, ProcessLogged(how))
                 /\ ps' = PrintStatusCall("SUFFIX", "", new_line, status', "return")
                 /\ pc' = "ps_stop"
          ELSE \E o \in CallOutcomes(row.process) :
                 IF RunFunctionCatches(o)
                 THEN /\ status' = RunFunctionStatus(row.ignore_errors, o)
                      /\ true_status' =
                             Append(true_status,
                                    [status |-> CallableStatus(o), ext_status |-> 0])
                      /\ logged' = Append(logged, FunctionLogged(o))
                      /\ ps' = PrintStatusCall("SUFFIX", "", new_line, status', "return")
                      /\ pc' = "ps_stop"
                 ELSE /\ pc' = "escaped"
                      /\ UNCHANGED <<status, true_status, logged, ps>>
    /\ UNCHANGED <<config, exec, decoder, helpers, driver, spinner_active, progress_threads,
                   sink, step, executed, returned, raised>>

\* return status
StepReturn ==
    /\ pc = "return"
    /\ returned' = Append(returned, status)
    /\ pc' = "check"
    /\ UNCHANGED <<config, exec, decoder, helpers, driver, spinner_active, progress_threads,
                   sink, step, ps, status, executed, true_status, raised, logged>>

\* ------------------------------------------------------ the stage function

\* A faulty StageCheck: a failed step does not raise, the loop goes on.
StageCheckNoRaise ==
    /\ pc = "check"
    /\ step' = step + 1
    /\ pc' = "loop"
    /\ UNCHANGED <<config, exec, decoder, helpers, driver, spinner_active, progress_threads,
                   sink, ps, status, history>>

\* if <step runner>(...) != 0: raise StepError(...); else the next row.
StageCheck ==
    /\ pc = "check"
    /\ IF status # 0
       THEN /\ raised' = Append(raised,
                           StepErrorMessage(stage, steps_commands[step].description))
            /\ pc' = "aborted"
            /\ UNCHANGED step
       ELSE /\ step' = step + 1
            /\ pc' = "loop"
            /\ UNCHANGED raised
    /\ UNCHANGED <<config, exec, decoder, helpers, driver, spinner_active, progress_threads,
                   sink, ps, status, executed, true_status, returned, logged>>

\* After the last row: the Both-phase DONE banner, for the stages that have one.
StageDone ==
    /\ pc = "loop"
    /\ step > Len(steps_commands)
    /\ IF StageHasBanner(stage)
       THEN /\ ps' = PrintStatusCall("BOTH", stage, TRUE, InfoType(variant, "DONE"),
                                     "completed")
            /\ pc' = "ps_prefix"
       ELSE /\ pc' = "completed"
            /\ UNCHANGED ps
    /\ UNCHANGED <<config, exec, decoder, helpers, driver, spinner_active, progress_threads,
                   sink, step, status, history>>

MainThread == StepCall \/ StepExec \/ StepReturn \/ StageCheck \/ StageDone \/ PrintStatus

Next == MainThread

\* The main thread alone. It reads nothing an indicator thread writes, so its own
\* behaviour is the same with the threads interleaved (SpecSpinner).
Spec == Init /\ [][Next]_vars

\* ------------------------------------------------ wsl_runner_spinner_thread

\* The indicator of the current row has been stopped: wsl_runner_set_spinner(False)
\* has written its backspace since the row began.
RowStopped == \E k \in DOMAIN sink : sink[k] = Write("main", "\\b", 0)

\* What the sink keeps of an indicator thread's write. Until the row's indicator is
\* stopped the glyph/backspace pairs are the animation, overwriting one cell in
\* place; the sink keeps the indicator's writes that land on a stopped row.
SpinnerWrite(text) ==
    IF RowStopped THEN Append(sink, Write("spinner", text, 0)) ELSE sink

\* while spinner_active:
SpinTest ==
    /\ progress_threads["test"] > 0
    /\ progress_threads' =
           ThreadMoved(progress_threads, "test",
                       IF spinner_active THEN "glyph" ELSE "exited")
    /\ UNCHANGED <<config, exec, decoder, helpers, driver, spinner_active, sink, step, pc,
                   ps, status, history>>

\* sys.stdout.write(glyph); sys.stdout.flush()
SpinGlyph ==
    /\ progress_threads["glyph"] > 0
    /\ sink' = SpinnerWrite("glyph")
    /\ progress_threads' = ThreadMoved(progress_threads, "glyph", "bs")
    /\ UNCHANGED <<config, exec, decoder, helpers, driver, spinner_active, step, pc, ps, status,
                   history>>

\* sys.stdout.write("\b"); time.sleep(0.1)
SpinBackspace ==
    /\ progress_threads["bs"] > 0
    /\ sink' = SpinnerWrite("\\b")
    /\ progress_threads' = ThreadMoved(progress_threads, "bs", "test")
    /\ UNCHANGED <<config, exec, decoder, helpers, driver, spinner_active, step, pc, ps, status,
                   history>>

\* One step of any live indicator thread.
SpinnerThread == SpinTest \/ SpinGlyph \/ SpinBackspace

NextSpinner == MainThread \/ SpinnerThread

\* The stage functions run with the threads interleaved: one with a banner, one
\* without, and the one that runs callables.
SpinnerStages(v) ==
    {st \in StageFunctions(v) :
        \/ st \in {"run_initial_setup_steps", "run_kerberos_steps"}
        \/ StageUsesFunction(st)}

InitSpinner ==
    /\ variant \in Variants
    /\ spinner_disabled \in DisplayModes(variant)
    /\ stage \in SpinnerStages(variant)
    /\ steps_commands \in StepTables(stage, MaxSpinnerSteps)
    /\ new_line = StageNewLine(variant, stage, spinner_disabled)
    /\ InitEngine

\* The main thread and the indicator threads, in every interleaving. The settle
\* delays (time.sleep) order nothing: a thread may be delayed past any of them.
SpecSpinner == InitSpinner /\ [][NextSpinner]_vars

\* ------------------------------------------------- a direct step runner call

\* The commands a step runner may be given.
Processes == {"wsl", "curl"}

\* One call of wsl_runner_run_process or ws_runner_run_function with any arguments.
DirectRow ==
    { [description |-> StepDescriptions[1], target |-> "process", process |-> p,
       ignore_errors |-> ig] : p \in Processes, ig \in BOOLEAN }
    \cup
    { [description |-> StepDescriptions[1], target |-> "function",
       process |-> p, ignore_errors |-> ig] :
          p \in {"callable", "not callable"}, ig \in BOOLEAN }

InitStep ==
    /\ variant \in Variants
    /\ spinner_disabled \in DisplayModes(variant)
    /\ stage = ""
    /\ \E row \in DirectRow : steps_commands = << row >>
    /\ new_line \in BOOLEAN
    /\ InitEngine

NextStep == StepCall \/ StepExec \/ StepReturn \/ PrintStatus

\* A step runner called on its own, up to its return.
SpecStep == InitStep /\ [][NextStep]_vars

\* ------------------------------------------- a direct wsl_runner_print_status call

\* The high halves of the large outcome codes tried: around 2 ** 30, 2 ** 31 and
\* 2 ** 32.
WideHighs == {16383, 16384, 32767, 32768, 65535}

\* The outcome codes a call is made with: the codes of both InfoType enumerations,
\* exit, timeout and HTTP statuses, and large values up to 2 ** 32 - 1.
RetVals ==
    { Halves(n) : n \in {0, -1, 1, 2, TIMEOUT_STATUS, 127, 404, 1000, 1001, 10001, 10002} }
    \cup { [hi |-> h, lo |-> l] : h \in WideHighs, l \in {0, 1, 65535} }

\* The calls of wsl_runner_print_status.
PrintCalls ==
    { [text_type |-> t, description |-> d, new_line |-> nl, ret_val |-> r,
       ret_pc |-> "printed"] :
          t \in TextType, d \in {"", StepDescriptions[1]}, nl \in BOOLEAN, r \in RetVals }

\* One call of wsl_runner_print_status with any arguments; a Suffix call may find
\* the indicator running.
InitPrint ==
    /\ variant \in Variants
    /\ spinner_disabled \in DisplayModes(variant)
    /\ stage = ""
    /\ steps_commands = << >>
    /\ new_line = FALSE
    /\ ps_call \in PrintCalls
    /\ ps = ps_call
    /\ pc = "ps_prefix"
    /\ spinner_active \in IF ps_call.text_type = "SUFFIX" /\ ~spinner_disabled
                          THEN BOOLEAN ELSE {FALSE}
    /\ progress_threads = IF spinner_active
                          THEN ThreadStarted([p \in ThreadPositions |-> 0], "test")
                          ELSE [p \in ThreadPositions |-> 0]
    /\ sink = << >>
    /\ step = 1
    /\ status = 0
    /\ executed = << >>
    /\ true_status = << >>
    /\ returned = << >>
    /\ raised = << >>
    /\ logged = << >>
    /\ ExecIdle
    /\ DriverIdle
    /\ DecoderIdle
    /\ HelpersIdle

NextPrint == PrintStatus

SpecPrint == InitPrint /\ [][NextPrint]_vars

\* ------------------------------------------------- wsl_runner_exec_process

\* The state of the main thread, which a wsl_runner_exec_process call leaves alone.
engine == <<spinner_disabled, spinner_active, progress_threads, sink, stage,
            steps_commands, new_line, step, pc, ps, ps_call, status, history, driver>>

\* The lines a child writes: two HTTP codes, a text line, a blank line, a line with
\* a character outside Latin-1, and bytes the stream's encoding cannot decode.
NonLatin1Line == "<U+20AC>"
UndecodableLine == "<invalid bytes>"
Lines == {"200", "404", "oops", "", NonLatin1Line, UndecodableLine}

\* What a child does before it exits, in order: it writes a line to a stream
\* ("stdout", "stderr") or closes one; at most MaxLines writes, none to a stream
\* it has closed.
ChildOps == {"stdout", "stderr", "close_stdout", "close_stderr"}

ChildPlans ==
    { plan \in UNION { [1..n -> ChildOps] : n \in 0..(MaxLines + 2) } :
        /\ Cardinality({k \in DOMAIN plan : plan[k] \in {"stdout", "stderr"}}) <= MaxLines
        /\ \A i, j \in DOMAIN plan :
              (i < j /\ plan[i] = "close_stdout") => plan[j] \notin {"stdout", "close_stdout"}
        /\ \A i, j \in DOMAIN plan :
              (i < j /\ plan[i] = "close_stderr") => plan[j] \notin {"stderr", "close_stderr"} }

\* The timeout arguments, in clock ticks.
Timeouts == 0..MaxTimeout

\* int(line) guarded by except ValueError: the number, or 0 when it is not one.
ParseInt(line) ==
    CASE line = "200" -> 200
      [] line = "404" -> 404
      [] OTHER -> 0

\* wsl_runner_console_decoder on one printable line: the line, nothing when blank.
ConsoleDecoder(line) == IF line = "" THEN << >> ELSE << line >>

\* What Popen does: the child is started, or one of the exceptions is raised.
PopenOutcomes == {"started", "FileNotFoundError", "ValueError", "OSError"}

\* The tuple returned: imcv2_image_creator adds the captured lines.
ExecReturn(v, exit_status, ext, lines) ==
    IF v = "imcv2_image_creator" THEN <<exit_status, ext, lines>> ELSE <<exit_status, ext>>

\* The tuple the outer exception handlers return.
ExceptionReturn(v, e) ==
    IF v = "imcv2_image_creator"
    THEN <<1, 0, << >> >>
    ELSE IF e = "FileNotFoundError" THEN <<127, 0>> ELSE <<1, 0>>

\* proc.wait(timeout=...): imcv2_image_creator passes None for a timeout of 0.
WaitHasTimeout(v, timeout) == ~(v = "imcv2_image_creator" /\ timeout = 0)

\* The child as the deadline sees it.
DeadlineState(p) ==
    IF p.state # "running" THEN "exited"
    ELSE IF p.stdout_open /\ p.stderr_open THEN "running_open" ELSE "running_closed"

\* The except clauses around the Popen block (other than TimeoutExpired).
ExceptClauses == {"FileNotFoundError", "ValueError", "Exception"}

\* A faulty ExecCatches: the catch-all clause is missing.
ExecCatchesNamedOnly(e) == Bases(e) \cap {"FileNotFoundError", "ValueError"} # {}

\* Whether one of the except clauses catches the exception.
ExecCatches(e) == Bases(e) \cap ExceptClauses # {}

\* wsl_runner_console_decoder raises on a line it cannot encode as Latin-1.
DecoderRaises(line) == line = NonLatin1Line

\* Whether reading the line raises: the stream cannot decode its bytes, or the
\* decoder is called on it (imcv2_wsl_runner only calls it to print) and raises.
ReadRaises(v, hidden, line) ==
    IF line = UndecodableLine THEN "UnicodeDecodeError"
    ELSE IF DecoderRaises(line) /\ (v = "imcv2_image_creator" \/ ~hidden)
         THEN "UnicodeEncodeError"
         ELSE "none"

\* The exception leaves the function body: a clause catches it and its tuple is
\* returned, or it escapes to the caller.
ExecLeave(e) ==
    /\ x_pc' = "done"
    /\ IF ExecCatches(e)
       THEN /\ x_result' = ExceptionReturn(variant, e)
            /\ UNCHANGED x_raised
       ELSE /\ x_raised' = e
            /\ UNCHANGED x_result

\* subprocess.Popen(cmd, stdout=PIPE, stderr=PIPE, ...).
ExecPopen ==
    /\ x_pc = "popen"
    /\ \E o \in PopenOutcomes :
          IF o = "started"
          THEN /\ proc' = [state |-> "running", exit_code |-> 0, stdout_open |-> TRUE,
                           stderr_open |-> TRUE]
               /\ x_pc' = "read_stdout"
               /\ UNCHANGED <<x_result, x_exception, x_raised>>
          ELSE /\ x_exception' = o
               /\ ExecLeave(o)
               /\ UNCHANGED proc
    /\ UNCHANGED <<variant, engine, decoder, helpers, child_plan, child_wrote, x_process,
                   x_hidden, x_timeout, x_log_lines, x_printed, x_printed_lines,
                   x_ext_status, pipe_stdout, pipe_stderr, written, now, wait_start,
                   at_deadline>>

\* One iteration of the loop over proc.stdout. An exception raised by the read or
\* by the decoder leaves the with block.
ExecReadStdout ==
    /\ x_pc = "read_stdout"
    /\ pipe_stdout # << >>
    /\ LET line == Head(pipe_stdout)
           e == ReadRaises(variant, x_hidden, line)
       IN /\ pipe_stdout' = Tail(pipe_stdout)
          /\ IF line = UndecodableLine
             THEN UNCHANGED <<x_ext_status, x_printed_lines, x_log_lines, x_printed>>
             ELSE IF variant = "imcv2_image_creator"
             THEN /\ x_log_lines' = IF e = "none"
                                    THEN x_log_lines \o ConsoleDecoder(line)
                                    ELSE x_log_lines
                  /\ x_printed' = IF x_hidden \/ e # "none" THEN x_printed
                                  ELSE x_printed \o ConsoleDecoder(line)
                  /\ UNCHANGED <<x_ext_status, x_printed_lines>>
             ELSE /\ x_ext_status' = IF x_process = "curl" /\ x_printed_lines = 0
                                     THEN ParseInt(line) ELSE x_ext_status
                  /\ x_printed' = IF x_hidden \/ e # "none" THEN x_printed
                                  ELSE x_printed \o ConsoleDecoder(line)
                  /\ x_printed_lines' = IF e = "none" THEN x_printed_lines + 1
                                        ELSE x_printed_lines
                  /\ UNCHANGED x_log_lines
          /\ IF e = "none"
             THEN UNCHANGED <<x_pc, x_exception>>
             ELSE x_pc' = "unwind" /\ x_exception' = e
    /\ UNCHANGED <<variant, engine, decoder, helpers, child_plan, child_wrote, x_process,
                   x_hidden, x_timeout, x_result, x_raised, proc, pipe_stderr, written, now,
                   wait_start, at_deadline>>

\* The loop over proc.stdout ends at end of file: the pipe is empty and closed.
ExecStdoutEOF ==
    /\ x_pc = "read_stdout"
    /\ pipe_stdout = << >>
    /\ ~proc.stdout_open
    /\ x_pc' = "read_stderr"
    /\ UNCHANGED <<variant, engine, decoder, helpers, child_plan, child_wrote, x_exception,
                   x_raised, x_process, x_hidden, x_timeout, x_log_lines, x_printed,
                   x_printed_lines, x_ext_status, x_result, proc, pipe_stdout, pipe_stderr,
                   written, now, wait_start, at_deadline>>

\* One iteration of the loop over proc.stderr.
ExecReadStderr ==
    /\ x_pc = "read_stderr"
    /\ pipe_stderr # << >>
    /\ LET line == Head(pipe_stderr)
           e == ReadRaises(variant, x_hidden, line)
       IN /\ pipe_stderr' = Tail(pipe_stderr)
          /\ x_printed' = IF x_hidden \/ e # "none" THEN x_printed
                          ELSE x_printed \o ConsoleDecoder(line)
          /\ x_log_lines' = IF variant = "imcv2_image_creator" /\ e = "none"
                            THEN x_log_lines \o ConsoleDecoder(line)
                            ELSE x_log_lines
          /\ IF e = "none"
             THEN UNCHANGED <<x_pc, x_exception>>
             ELSE x_pc' = "unwind" /\ x_exception' = e
    /\ UNCHANGED <<variant, engine, decoder, helpers, child_plan, child_wrote, x_process,
                   x_hidden, x_timeout, x_printed_lines, x_ext_status, x_result, x_raised,
                   proc, pipe_stdout, written, now, wait_start, at_deadline>>

\* An exception leaves the with block: Popen.__exit__ waits for the child to end
\* (without a timeout), then the exception reaches the except clauses.
ExecUnwind ==
    /\ x_pc = "unwind"
    /\ proc.state # "running"
    /\ ExecLeave(x_exception)
    /\ UNCHANGED <<variant, engine, decoder, helpers, child_plan, child_wrote, x_process,
                   x_hidden, x_timeout, x_log_lines, x_printed, x_printed_lines,
                   x_ext_status, x_exception, proc, pipe_stdout, pipe_stderr, written, now,
                   wait_start, at_deadline>>

\* The loop over proc.stderr ends; imcv2_image_creator then takes curl's HTTP code
\* from the first captured line; proc.wait is entered.
ExecStderrEOF ==
    /\ x_pc = "read_stderr"
    /\ pipe_stderr = << >>
    /\ ~proc.stderr_open
    /\ x_ext_status' = IF /\ variant = "imcv2_image_creator"
                          /\ x_process = "curl"
                          /\ x_log_lines # << >>
                       THEN ParseInt(x_log_lines[1])
                       ELSE x_ext_status
    /\ x_pc' = "wait"
    /\ wait_start' = now
    /\ UNCHANGED <<variant, engine, decoder, helpers, child_plan, child_wrote, x_exception,
                   x_raised, x_process, x_hidden, x_timeout, x_log_lines, x_printed,
                   x_printed_lines, x_result, proc, pipe_stdout, pipe_stderr, written, now,
                   at_deadline>>

\* proc.wait returns the exit code of a child that has exited.
ExecWaitReturn ==
    /\ x_pc = "wait"
    /\ proc.state = "exited"
    /\ x_result' = ExecReturn(variant, proc.exit_code, x_ext_status, x_log_lines)
    /\ x_pc' = "done"
    /\ UNCHANGED <<variant, engine, decoder, helpers, child_plan, child_wrote, x_exception,
                   x_raised, x_process, x_hidden, x_timeout, x_log_lines, x_printed,
                   x_printed_lines, x_ext_status, proc, pipe_stdout, pipe_stderr, written,
                   now, wait_start, at_deadline>>

\* proc.wait raises TimeoutExpired once its timeout has passed since it was
\* entered: the child is killed and 124 returned.
ExecWaitTimeout ==
    /\ x_pc = "wait"
    /\ proc.state = "running"
    /\ WaitHasTimeout(variant, x_timeout)
    /\ now - wait_start >= x_timeout
    /\ proc' = [proc EXCEPT !.state = "killed", !.stdout_open = FALSE,
                            !.stderr_open = FALSE]
    /\ x_result' = ExecReturn(variant, TIMEOUT_STATUS, x_ext_status, x_log_lines)
    /\ x_pc' = "done"
    /\ UNCHANGED <<variant, engine, decoder, helpers, child_plan, child_wrote, x_exception,
                   x_raised, x_process, x_hidden, x_timeout, x_log_lines, x_printed,
                   x_printed_lines, x_ext_status, pipe_stdout, pipe_stderr, written, now,
                   wait_start, at_deadline>>

\* The child writes a line to its stdout; it blocks while the pipe is full.
ChildWriteStdout ==
    /\ proc.state = "running"
    /\ proc.stdout_open
    /\ written < MaxLines
    /\ child_plan # << >> /\ Head(child_plan) = "stdout"
    /\ Len(pipe_stdout) < PipeCap
    /\ child_plan' = Tail(child_plan)
    /\ \E line \in Lines :
          /\ pipe_stdout' = Append(pipe_stdout, line)
          /\ child_wrote' = Append(child_wrote, [stream |-> "stdout", line |-> line])
    /\ written' = written + 1
    /\ UNCHANGED <<variant, engine, decoder, helpers, x_exception, x_raised,
                   x_process, x_hidden, x_timeout, x_pc, x_log_lines,
                   x_printed, x_printed_lines, x_ext_status, x_result, proc,
                   pipe_stderr, now, wait_start, at_deadline>>

\* The child writes a line to its stderr; it blocks while the pipe is full.
ChildWriteStderr ==
    /\ proc.state = "running"
    /\ proc.stderr_open
    /\ written < MaxLines
    /\ child_plan # << >> /\ Head(child_plan) = "stderr"
    /\ Len(pipe_stderr) < PipeCap
    /\ child_plan' = Tail(child_plan)
    /\ \E line \in Lines :
          /\ pipe_stderr' = Append(pipe_stderr, line)
          /\ child_wrote' = Append(child_wrote, [stream |-> "stderr", line |-> line])
    /\ written' = written + 1
    /\ UNCHANGED <<variant, engine, decoder, helpers, x_exception, x_raised,
                   x_process, x_hidden, x_timeout, x_pc, x_log_lines,
                   x_printed, x_printed_lines, x_ext_status, x_result, proc,
                   pipe_stdout, now, wait_start, at_deadline>>

\* The child closes one of its output streams and keeps running.
ChildClose ==
    /\ proc.state = "running"
    /\ child_plan # << >>
    /\ \/ /\ Head(child_plan) = "close_stdout"
          /\ proc' = [proc EXCEPT !.stdout_open = FALSE]
       \/ /\ Head(child_plan) = "close_stderr"
          /\ proc' = [proc EXCEPT !.stderr_open = FALSE]
    /\ child_plan' = Tail(child_plan)
    /\ UNCHANGED <<variant, engine, decoder, helpers, child_wrote, x_exception, x_raised,
                   x_process, x_hidden, x_timeout, x_pc, x_log_lines,
                   x_printed, x_printed_lines, x_ext_status, x_result, pipe_stdout,
                   pipe_stderr, written, now, wait_start, at_deadline>>

\* The child exits with some code once it has written its lines, which closes
\* its streams.
ChildExit ==
    /\ proc.state = "running"
    /\ child_plan = << >>
    /\ \E code \in ExitCodes :
          proc' = [state |-> "exited", exit_code |-> code, stdout_open |-> FALSE,
                   stderr_open |-> FALSE]
    /\ UNCHANGED <<variant, engine, decoder, helpers, child_plan, child_wrote, x_exception,
                   x_raised, x_process, x_hidden, x_timeout, x_pc, x_log_lines, x_printed,
                   x_printed_lines, x_ext_status, x_result, pipe_stdout, pipe_stderr,
                   written, now, wait_start, at_deadline>>

\* Popen.__exit__ has closed the parent's ends of the pipes: a write of the child
\* fails instead of blocking, and the child goes on.
ChildBrokenPipe ==
    /\ x_pc = "unwind"
    /\ proc.state = "running"
    /\ child_plan # << >> /\ Head(child_plan) \in {"stdout", "stderr"}
    /\ child_plan' = Tail(child_plan)
    /\ UNCHANGED <<variant, engine, decoder, helpers, child_wrote, x_exception, x_raised,
                   x_process, x_hidden, x_timeout, x_pc, x_log_lines, x_printed,
                   x_printed_lines, x_ext_status, x_result, proc, pipe_stdout,
                   pipe_stderr, written, now, wait_start, at_deadline>>

\* A clock tick during the call. The history records the child's state at the
\* tick x_timeout after the spawn (for a timeout above 0).
Tick ==
    /\ x_pc \in {"read_stdout", "read_stderr", "wait"}
    /\ now < MaxTime
    /\ now' = now + 1
    /\ at_deadline' = IF at_deadline = "pending" /\ now' = x_timeout
                      THEN DeadlineState(proc) ELSE at_deadline
    /\ UNCHANGED <<variant, engine, decoder, helpers, child_plan, child_wrote, x_exception,
                   x_raised, x_process, x_hidden, x_timeout, x_pc, x_log_lines, x_printed,
                   x_printed_lines, x_ext_status, x_result, proc, pipe_stdout, pipe_stderr,
                   written, wait_start>>

ExecProcess ==
    \/ ExecPopen
    \/ ExecReadStdout
    \/ ExecStdoutEOF
    \/ ExecReadStderr
    \/ ExecUnwind
    \/ ExecStderrEOF
    \/ ExecWaitReturn
    \/ ExecWaitTimeout

Child == ChildWriteStdout \/ ChildWriteStderr \/ ChildClose \/ ChildExit \/ ChildBrokenPipe

NextExec == ExecProcess \/ Child \/ Tick

\* One call of wsl_runner_exec_process with any arguments.
InitExec ==
    /\ variant \in Variants
    /\ spinner_disabled = FALSE
    /\ stage = ""
    /\ steps_commands = << >>
    /\ new_line = FALSE
    /\ InitMain
    /\ x_process \in Processes
    /\ x_hidden \in BOOLEAN
    /\ x_timeout \in Timeouts
    /\ x_pc = "popen"
    /\ child_plan \in ChildPlans
    /\ InitExecLocals
    /\ DriverIdle
    /\ DecoderIdle
    /\ HelpersIdle

\* The call, its child and the clock, in every interleaving.
SpecExec == InitExec /\ [][NextExec]_vars

\* ------------------------------------------------- wsl_runner_main

\* The steps list of wsl_runner_main: the stages in the order they are called.
MainSteps(v) ==
    IF v = "imcv2_image_creator"
    THEN << "Pre-prerequisites", "Initial setup", "User creation", "User shell setup",
            "Time zone setup", "Kerberos setup", "Install system packages",
            "Install git configuration", "Install pyenv", "Post-install steps",
            "Create desktop shortcut" >>
    ELSE << "Pre-prerequisites", "Initial setup", "User creation", "Time zone setup",
            "Kerberos setup", "User shell setup", "Install system packages",
            "Install user packages", "Install pyenv", "Post-install steps",
            "Create desktop shortcut" >>

\* The values of args.start_step tried.
StartSteps(v) == (0 - StartStepMargin)..(Len(MainSteps(v)) - 1 + StartStepMargin)

\* A faulty StartStepValid: the upper limit is off by one.
StartStepValidOffByOne(s, n) == ~(s < 0 \/ s > n)

\* if args.start_step < 0 or args.start_step >= len(steps): raise ValueError.
StartStepValid(s, n) == ~(s < 0 \/ s >= n)

\* The exceptions a called stage can end with.
StageRaises == {"StepError", "KeyboardInterrupt", "Exception"}

\* How a called stage ends: a stage function completes or raises; the shortcut
\* function returns a status (which main does not look at) and catches Exception.
StageOutcomes(name) ==
    IF name = "Create desktop shortcut"
    THEN {"completed", "returned_nonzero", "KeyboardInterrupt"}
    ELSE {"completed"} \cup StageRaises

\* What precedes the stage list: --version returns 0, a refused environment or a
\* missing name returns 1, otherwise the run proceeds.
PreambleOutcomes == {"version", "refused", "proceed"}

\* The message each except clause of wsl_runner_main prints.
HandlerMessage(e) ==
    CASE e = "StepError" -> "Error"
      [] e = "KeyboardInterrupt" -> "Operation interrupted by the user"
      [] OTHER -> "Exception"

\* Argument parsing and the environment checks of wsl_runner_main.
\* imcv2_wsl_runner hides the cursor before its start_step check.
MainPreamble ==
    /\ m_pc = "start"
    /\ \E o \in PreambleOutcomes :
          CASE o = "version" -> /\ m_result' = << 0 >>
                                /\ m_pc' = "returned"
                                /\ UNCHANGED m_console
            [] o = "refused" -> /\ m_result' = << 1 >>
                                /\ m_pc' = "returned"
                                /\ UNCHANGED m_console
            [] OTHER -> /\ m_pc' = "check"
                        /\ m_console' = IF variant = "imcv2_wsl_runner"
                                        THEN Append(m_console, "hide_cursor")
                                        ELSE m_console
                        /\ UNCHANGED m_result
    /\ UNCHANGED <<config, exec, decoder, helpers, spinner_active, progress_threads, sink,
                   step, pc, ps, status, history, start_step, m_i, m_exc, m_ran, m_outcomes>>

\* The start_step check: ValueError when out of range, else the loop starts at it.
\* imcv2_image_creator hides the cursor after the check.
MainCheckStart ==
    /\ m_pc = "check"
    /\ IF StartStepValid(start_step, Len(MainSteps(variant)))
       THEN /\ m_i' = start_step
            /\ m_pc' = "loop"
            /\ m_console' = IF variant = "imcv2_image_creator"
                            THEN Append(m_console, "hide_cursor")
                            ELSE m_console
            /\ UNCHANGED m_exc
       ELSE /\ m_exc' = "ValueError"
            /\ m_pc' = "except"
            /\ UNCHANGED <<m_i, m_console>>
    /\ UNCHANGED <<config, exec, decoder, helpers, spinner_active, progress_threads, sink,
                   step, pc, ps, status, history, start_step, m_result, m_ran, m_outcomes>>

\* A faulty MainRunStage: a stage that raises is skipped and the loop goes on.
MainRunStageSkipsFailure ==
    /\ m_pc = "loop"
    /\ m_i < Len(MainSteps(variant))
    /\ m_ran' = Append(m_ran, m_i)
    /\ \E o \in StageOutcomes(MainSteps(variant)[m_i + 1]) :
          m_outcomes' = Append(m_outcomes, o)
    /\ m_i' = m_i + 1
    /\ UNCHANGED <<config, exec, decoder, helpers, spinner_active, progress_threads, sink,
                   step, pc, ps, status, history, start_step, m_pc, m_exc, m_result,
                   m_console>>

\* One iteration of the loop over steps[args.start_step:]: step_function().
MainRunStage ==
    /\ m_pc = "loop"
    /\ m_i < Len(MainSteps(variant))
    /\ m_ran' = Append(m_ran, m_i)
    /\ \E o \in StageOutcomes(MainSteps(variant)[m_i + 1]) :
          /\ m_outcomes' = Append(m_outcomes, o)
          /\ IF o \in StageRaises
             THEN /\ m_exc' = o
                  /\ m_pc' = "except"
                  /\ UNCHANGED m_i
             ELSE /\ m_i' = m_i + 1
                  /\ UNCHANGED <<m_pc, m_exc>>
    /\ UNCHANGED <<config, exec, decoder, helpers, spinner_active, progress_threads, sink,
                   step, pc, ps, status, history, start_step, m_result, m_console>>

\* After the loop: the WSL shell is started and main returns 0, unless that raises.
MainFinish ==
    /\ m_pc = "loop"
    /\ m_i = Len(MainSteps(variant))
    /\ \/ /\ m_result' = << 0 >>
          /\ m_pc' = "returned"
          /\ UNCHANGED m_exc
       \/ /\ \E e \in {"KeyboardInterrupt", "Exception"} : m_exc' = e
          /\ m_pc' = "except"
          /\ UNCHANGED m_result
    /\ UNCHANGED <<config, exec, decoder, helpers, spinner_active, progress_threads, sink,
                   step, pc, ps, status, history, start_step, m_i, m_ran, m_outcomes,
                   m_console>>

\* The except clauses of wsl_runner_main: the message is printed, 1 returned.
MainExcept ==
    /\ m_pc = "except"
    /\ m_console' = Append(m_console, HandlerMessage(m_exc))
    /\ m_result' = << 1 >>
    /\ m_pc' = "returned"
    /\ UNCHANGED <<config, exec, decoder, helpers, spinner_active, progress_threads, sink,
                   step, pc, ps, status, history, start_step, m_i, m_exc, m_ran, m_outcomes>>

\* A faulty MainExit: the cursor is restored only when main returned 0.
MainExitRestoresOnSuccess ==
    /\ m_pc = "returned"
    /\ m_console' = IF m_result = << 0 >> THEN Append(m_console, "show_cursor")
                    ELSE m_console
    /\ m_pc' = "exited"
    /\ UNCHANGED <<config, exec, decoder, helpers, spinner_active, progress_threads, sink,
                   step, pc, ps, status, history, start_step, m_i, m_exc, m_result, m_ran,
                   m_outcomes>>

\* __main__: the cursor is restored and the process exits with main's value.
MainExit ==
    /\ m_pc = "returned"
    /\ m_console' = Append(m_console, "show_cursor")
    /\ m_pc' = "exited"
    /\ UNCHANGED <<config, exec, decoder, helpers, spinner_active, progress_threads, sink,
                   step, pc, ps, status, history, start_step, m_i, m_exc, m_result, m_ran,
                   m_outcomes>>

NextMain ==
    \/ MainPreamble
    \/ MainCheckStart
    \/ MainRunStage
    \/ MainFinish
    \/ MainExcept
    \/ MainExit

\* The program run with any start_step; each stage is taken by how it ends.
InitMainRun ==
    /\ variant \in Variants
    /\ spinner_disabled \in DisplayModes(variant)
    /\ stage = ""
    /\ steps_commands = << >>
    /\ new_line = spinner_disabled
    /\ InitMain
    /\ ExecIdle
    /\ DecoderIdle
    /\ HelpersIdle
    /\ start_step \in StartSteps(variant)
    /\ m_pc = "start"
    /\ m_i = 0
    /\ m_exc = "none"
    /\ m_result = << >>
    /\ m_ran = << >>
    /\ m_outcomes = << >>
    /\ m_console = << >>

SpecMain == InitMainRun /\ [][NextMain]_vars

\* ---------------------------------------------- wsl_runner_console_decoder

\* The longest input string.
MaxLen == 4

\* The characters of an input string, as code points: tab, line feed, carriage
\* return, space, "a", the two Latin-1 characters whose bytes are the UTF-8 form
\* of U+00E9 (0xC3, 0xA9), and the euro sign, which Latin-1 cannot encode.
Chars == {9, 10, 13, 32, 97, 169, 195, 8364}

RECURSIVE StringsUpTo(_)
StringsUpTo(n) ==
    IF n = 0 THEN {<< >>}
    ELSE LET shorter == StringsUpTo(n - 1)
         IN shorter \cup {Append(s, c) : s \in {t \in shorter : Len(t) = n - 1}, c \in Chars}

InputStrings == StringsUpTo(MaxLen)

\* U+FFFD, what errors='replace' puts for bytes that do not decode.
REPLACEMENT == 65533

\* input_string.encode('latin1') raises UnicodeEncodeError for a character above
\* U+00FF; otherwise the bytes are the code points.
EncodeRaises(s) == \E i \in 1..Len(s) : s[i] > 255

\* bytes.decode('utf-8', errors='replace') for the bytes of Chars: an ASCII byte
\* is itself, a two-byte lead (0xC2..0xDF) followed by a continuation byte
\* (0x80..0xBF) is one character, any other byte above 0x7F is replaced.
RECURSIVE DecodeUtf8(_)
DecodeUtf8(b) ==
    IF b = << >> THEN << >>
    ELSE IF b[1] < 128 THEN << b[1] >> \o DecodeUtf8(Tail(b))
    ELSE IF /\ b[1] >= 194 /\ b[1] <= 223
            /\ Len(b) >= 2 /\ b[2] >= 128 /\ b[2] <= 191
         THEN << (b[1] - 192) * 64 + (b[2] - 128) >> \o DecodeUtf8(Tail(Tail(b)))
         ELSE << REPLACEMENT >> \o DecodeUtf8(Tail(b))

\* bytes.decode('utf-16-le', errors='replace') for the bytes of Chars (none of
\* them makes a surrogate): two bytes are one code unit, a last odd byte is
\* replaced.
RECURSIVE DecodeUtf16le(_)
DecodeUtf16le(b) ==
    IF b = << >> THEN << >>
    ELSE IF Len(b) = 1 THEN << REPLACEMENT >>
    ELSE << b[1] + 256 * b[2] >> \o DecodeUtf16le(Tail(Tail(b)))

\* A faulty PrintableAscii: the control characters pass.
PrintableAsciiOrControl(c) == c <= 126

\* [\x20-\x7E]
PrintableAscii(c) == c >= 32 /\ c <= 126

\* re.sub(r'[^\x20-\x7E\n\r]+', '', decoded)
KeepPrintableAndBreaks(s) == SelectSeq(s, LAMBDA c : PrintableAscii(c) \/ c \in {10, 13})

\* re.sub(r'[^\x20-\x7E]+', '', decoded)
KeepPrintable(s) == SelectSeq(s, PrintableAscii)

\* str.splitlines() on a string whose only line boundaries are \n, \r and \r\n.
RECURSIVE SplitLines(_)
SplitLines(s) ==
    IF s = << >> THEN << >>
    ELSE LET breaks == {i \in 1..Len(s) : s[i] \in {10, 13}}
             k == IF breaks = {} THEN Len(s) + 1
                  ELSE CHOOSE i \in breaks : \A j \in breaks : i <= j
             skip == IF k < Len(s) /\ s[k] = 13 /\ s[k + 1] = 10 THEN k + 1 ELSE k
         IN << SubSeq(s, 1, k - 1) >> \o SplitLines(SubSeq(s, skip + 1, Len(s)))

\* line.strip() is not empty: the line has a character that is not a space.
NotBlank(line) == \E i \in 1..Len(line) : line[i] # 32

\* line.rstrip()
RECURSIVE RStrip(_)
RStrip(line) ==
    IF line # << >> /\ line[Len(line)] = 32
    THEN RStrip(SubSeq(line, 1, Len(line) - 1))
    ELSE line

\* [line.rstrip() for line in decoded.splitlines() if line.strip()]
RECURSIVE CleanedLines(_)
CleanedLines(lines) ==
    IF lines = << >> THEN << >>
    ELSE (IF NotBlank(Head(lines)) THEN << RStrip(Head(lines)) >> ELSE << >>)
         \o CleanedLines(Tail(lines))

\* The exception classes the decoder's except clause names.
DecoderExceptClause(v) ==
    IF v = "imcv2_wsl_runner" THEN {"UnicodeDecodeError", "AttributeError"}
    ELSE {"UnicodeDecodeError"}

DecoderCatches(v, e) == DecoderExceptClause(v) \cap Bases(e) # {}

\* What the decoder returns when nothing escapes: imcv2_image_creator a list of
\* lines, imcv2_wsl_runner a string.
DecoderValue(v, s) ==
    IF v = "imcv2_wsl_runner"
    THEN IF s = << >> THEN << >>
         ELSE IF EncodeRaises(s) THEN << >>
         ELSE LET utf8 == KeepPrintable(DecodeUtf8(s))
                  utf16 == KeepPrintable(DecodeUtf16le(s))
              IN IF utf8 # << >> THEN Append(utf8, 10)
                 ELSE IF utf16 # << >> THEN Append(utf16, 10)
                 ELSE << >>
    ELSE IF EncodeRaises(s) THEN << >>
         ELSE CleanedLines(SplitLines(KeepPrintableAndBreaks(DecodeUtf8(s))))

\* The exception the body of the decoder raises, or "none": imcv2_wsl_runner
\* returns before the try block for an empty string.
DecoderException(v, s) ==
    IF (v = "imcv2_wsl_runner" /\ s = << >>) \/ ~EncodeRaises(s) THEN "none"
    ELSE "UnicodeEncodeError"

\* wsl_runner_console_decoder(input_string)
DecodeCall ==
    /\ d_pc = "call"
    /\ LET e == DecoderException(variant, input_string)
       IN IF e = "none" \/ DecoderCatches(variant, e)
          THEN /\ d_result' = << DecoderValue(variant, input_string) >>
               /\ d_raised' = "none"
               /\ d_pc' = "returned"
          ELSE /\ d_raised' = e
               /\ d_pc' = "raised"
               /\ UNCHANGED d_result
    /\ UNCHANGED <<config, engine, exec, helpers, input_string, d_again>>

\* The exception a second call raises, on what the first one returned:
\* imcv2_image_creator returned a list, which has no encode method.
SecondException(v, value) ==
    IF v = "imcv2_image_creator" THEN "AttributeError" ELSE DecoderException(v, value)

\* wsl_runner_console_decoder(wsl_runner_console_decoder(input_string))
DecodeAgain ==
    /\ d_pc = "returned"
    /\ LET value == d_result[1]
           e == SecondException(variant, value)
       IN IF e = "none" \/ DecoderCatches(variant, e)
          THEN /\ d_again' = << DecoderValue(variant, value) >>
               /\ d_pc' = "again_returned"
               /\ UNCHANGED d_raised
          ELSE /\ d_raised' = e
               /\ d_pc' = "again_raised"
               /\ UNCHANGED d_again
    /\ UNCHANGED <<config, engine, exec, helpers, input_string, d_result>>

NextDecoder == DecodeCall \/ DecodeAgain

\* One call of wsl_runner_console_decoder with any input string.
InitDecoder ==
    /\ variant \in Variants
    /\ spinner_disabled = FALSE
    /\ stage = ""
    /\ steps_commands = << >>
    /\ new_line = FALSE
    /\ InitMain
    /\ ExecIdle
    /\ DriverIdle
    /\ input_string \in InputStrings
    /\ d_pc = "call"
    /\ d_result = << >>
    /\ d_raised = "none"
    /\ d_again = << >>
    /\ HelpersIdle

SpecDecoder == InitDecoder /\ [][NextDecoder]_vars

\* -------------------------------------------- wsl_runner_download_resources

\* The proxy_server arguments: the default None, an empty string, a server.
ProxyServers == {"None", "", "http://proxy:911"}

\* The curl arguments: --proxy is given when there is a proxy_server and the
\* global intel_proxy_detected is not False.
DownloadArgs(proxy_server, intel_proxy_detected) ==
    IF proxy_server \in {"None", ""} \/ intel_proxy_detected = "False"
    THEN << "-s", "-S", "-w", "%{http_code}", "--output", "url" >>
    ELSE << "-s", "-S", "-w", "%{http_code}", "--proxy", proxy_server, "--output", "url" >>

\* str(response_code) for the secondary statuses.
IntToStr(n) ==
    CASE n = 0 -> "0"
      [] n = 200 -> "200"
      [] n = 404 -> "404"

\* A faulty DownloadStatus: the exit status of curl is not looked at.
DownloadStatusHttpOnly(v, status_code, response_code) ==
    IF response_code = 200 THEN 0 ELSE 1

\* The value returned for the pair wsl_runner_exec_process gave: imcv2_wsl_runner
\* compares str(response_code).strip() with "200".
DownloadStatus(v, status_code, response_code) ==
    IF v = "imcv2_image_creator"
    THEN IF status_code = 0 /\ response_code = 200 THEN 0 ELSE 1
    ELSE IF status_code = 0 /\ IntToStr(response_code) = "200" THEN 0 ELSE 1

\* The arguments are built.
DownloadBuildArgs ==
    /\ dl.pc = "args"
    /\ dl' = [dl EXCEPT !.args = DownloadArgs(dl.proxy_server, dl.intel_proxy_detected),
                        !.pc = "exec"]
    /\ UNCHANGED <<config, engine, exec, decoder, wt, ind>>

\* wsl_runner_exec_process("curl", args, hidden=True, timeout=timeout), taken by
\* what it returns.
DownloadExec ==
    /\ dl.pc = "exec"
    /\ \E r \in ExecResults(variant, "curl") : dl' = [dl EXCEPT !.result = r, !.pc = "check"]
    /\ UNCHANGED <<config, engine, exec, decoder, wt, ind>>

\* return 0 for (0, 200), else return 1.
DownloadReturn ==
    /\ dl.pc = "check"
    /\ dl' = [dl EXCEPT !.returned = << DownloadStatus(variant, dl.result[1], dl.result[2]) >>,
                        !.pc = "returned"]
    /\ UNCHANGED <<config, engine, exec, decoder, wt, ind>>

NextDownload == DownloadBuildArgs \/ DownloadExec \/ DownloadReturn

\* One call of wsl_runner_download_resources with any proxy arguments.
InitDownload ==
    /\ variant \in Variants
    /\ spinner_disabled = FALSE
    /\ stage = ""
    /\ steps_commands = << >>
    /\ new_line = FALSE
    /\ InitMain
    /\ ExecIdle
    /\ DriverIdle
    /\ DecoderIdle
    /\ wt = NoWalk
    /\ ind = NoIndicator
    /\ \E p \in ProxyServers, d \in {"True", "False"} :
          dl = [NoDownload EXCEPT !.pc = "args", !.proxy_server = p,
                                  !.intel_proxy_detected = d]

SpecDownload == InitDownload /\ [][NextDownload]_vars

\* ------------------------------------ wsl_runner_is_cmd_in_windows_terminal

\* The longest chain of ancestor processes.
MaxAncestors == 3

\* What wmic gives as the name of a process; "" when its answer has no name line.
ProcessNames == {"cmd.exe", "Cmd.EXE", "WindowsTerminal.exe", "powershell.exe",
                 "pwsh.exe", "explorer.exe", ""}

\* str.lower() on the process names.
Lower(name) ==
    CASE name = "Cmd.EXE" -> "cmd.exe"
      [] name = "WindowsTerminal.exe" -> "windowsterminal.exe"
      [] OTHER -> name

\* A faulty NameKind: the names are compared as they are.
NameKindCaseSensitive(name) ==
    IF name = "cmd.exe" THEN "cmd"
    ELSE IF name = "windowsterminal.exe" THEN "terminal"
    ELSE IF name \in {"powershell.exe", "pwsh.exe"} THEN "powershell"
    ELSE "other"

\* The branch of the if/elif chain a process name takes.
NameKind(name) ==
    IF Lower(name) = "cmd.exe" THEN "cmd"
    ELSE IF Lower(name) = "windowsterminal.exe" THEN "terminal"
    ELSE IF Lower(name) \in {"powershell.exe", "pwsh.exe"} THEN "powershell"
    ELSE "other"

\* An ancestor: its name, and whether wmic gives its ParentProcessId.
Ancestors == [name : ProcessNames, parent_known : BOOLEAN]

\* The chains of ancestors, from the parent upwards; the parent of the last is
\* process 0.
AncestorChains == UNION { [1..n -> Ancestors] : n \in 1..MaxAncestors }

\* One iteration of `while current_pid`: the name is looked at (when wmic gave
\* one), then the parent is taken; current_pid is the position in the chain,
\* 0 for process 0.
TerminalStep ==
    /\ wt.pc = "loop"
    /\ wt.current_pid # 0
    /\ LET a == wt.ancestors[wt.current_pid]
           kind == IF a.name = "" THEN "other" ELSE NameKind(a.name)
           parent == IF wt.current_pid < Len(wt.ancestors) THEN wt.current_pid + 1 ELSE 0
       IN wt' = IF kind = "powershell"
                THEN [wt EXCEPT !.returned = << 1 >>, !.pc = "returned"]
                ELSE IF kind = "terminal"
                THEN [wt EXCEPT !.found_terminal = TRUE, !.pc = "after"]
                ELSE [wt EXCEPT !.found_cmd = @ \/ kind = "cmd",
                                !.current_pid = IF a.parent_known THEN parent ELSE @,
                                !.pc = IF a.parent_known THEN "loop" ELSE "after"]
    /\ UNCHANGED <<config, engine, exec, decoder, dl, ind>>

\* The loop ends at process 0.
TerminalLoopEnd ==
    /\ wt.pc = "loop"
    /\ wt.current_pid = 0
    /\ wt' = [wt EXCEPT !.pc = "after"]
    /\ UNCHANGED <<config, engine, exec, decoder, dl, ind>>

\* return 0 if found_cmd and found_terminal, else return 1.
TerminalReturn ==
    /\ wt.pc = "after"
    /\ wt' = [wt EXCEPT !.returned = IF wt.found_cmd /\ wt.found_terminal
                                     THEN << 0 >> ELSE << 1 >>,
                        !.pc = "returned"]
    /\ UNCHANGED <<config, engine, exec, decoder, dl, ind>>

NextTerminal == TerminalStep \/ TerminalLoopEnd \/ TerminalReturn

\* One call of wsl_runner_is_cmd_in_windows_terminal under any chain of ancestors.
InitTerminal ==
    /\ variant = "imcv2_image_creator"
    /\ spinner_disabled = FALSE
    /\ stage = ""
    /\ steps_commands = << >>
    /\ new_line = FALSE
    /\ InitMain
    /\ ExecIdle
    /\ DriverIdle
    /\ DecoderIdle
    /\ dl = NoDownload
    /\ ind = NoIndicator
    /\ \E chain \in AncestorChains :
          wt = [NoWalk EXCEPT !.pc = "loop", !.ancestors = chain, !.current_pid = 1]

SpecTerminal == InitTerminal /\ [][NextTerminal]_vars

\* ---------------------------------------- the indicator's threads, one by one

\* The number of steps (Prefix calls) of a run.
MaxStarts == 2

\* The thread wsl_runner_set_spinner(True) starts. stopped records that the flag
\* was cleared while the thread was alive.
NewThread(disabled) == [at |-> SpinnerThreadEntry(disabled), stopped |-> FALSE]

\* The threads after spinner_active = False: every live one has been told to stop.
ToldToStop(threads) ==
    [i \in DOMAIN threads |->
        IF threads[i].at = "exited" THEN threads[i]
        ELSE [threads[i] EXCEPT !.stopped = TRUE]]

IndicatorUnchanged ==
    UNCHANGED <<config, exec, decoder, driver, dl, wt, progress_threads, sink, step, pc,
                ps, status, history>>

\* A step's Prefix: wsl_runner_set_spinner(True).
IndicatorPrefix ==
    /\ ind.pc = "idle"
    /\ ind.steps < MaxStarts
    /\ IF spinner_disabled
       THEN /\ ind' = [ind EXCEPT !.pc = "step", !.steps = @ + 1]
            /\ UNCHANGED spinner_active
       ELSE /\ spinner_active' = TRUE
            /\ ind' = [ind EXCEPT !.pc = "step", !.steps = @ + 1,
                                  !.threads = Append(@, NewThread(spinner_disabled))]
    /\ IndicatorUnchanged

\* The step's Suffix: wsl_runner_set_spinner(False) clears the flag.
IndicatorSuffix ==
    /\ ind.pc = "step"
    /\ IF spinner_disabled
       THEN /\ ind' = [ind EXCEPT !.pc = "idle"]
            /\ UNCHANGED spinner_active
       ELSE /\ spinner_active' = FALSE
            /\ ind' = [ind EXCEPT !.pc = "settle", !.threads = ToldToStop(@)]
    /\ IndicatorUnchanged

\* wsl_runner_set_spinner(False) after time.sleep(0.1): the backspace, and the
\* rest of the Suffix.
IndicatorSettled ==
    /\ ind.pc = "settle"
    /\ ind' = [ind EXCEPT !.pc = "idle"]
    /\ UNCHANGED spinner_active
    /\ IndicatorUnchanged

\* KeyboardInterrupt while the step runs: no handler between the step and
\* wsl_runner_main's except clause.
IndicatorInterrupt ==
    /\ ind.pc = "step"
    /\ ind' = [ind EXCEPT !.pc = "except"]
    /\ UNCHANGED spinner_active
    /\ IndicatorUnchanged

\* except KeyboardInterrupt: the message is printed, main returns 1.
IndicatorHandler ==
    /\ ind.pc = "except"
    /\ ind' = [ind EXCEPT !.pc = "returned", !.message = TRUE]
    /\ UNCHANGED spinner_active
    /\ IndicatorUnchanged

\* The stages are done: main returns 0.
IndicatorReturn ==
    /\ ind.pc = "idle"
    /\ ind' = [ind EXCEPT !.pc = "returned"]
    /\ UNCHANGED spinner_active
    /\ IndicatorUnchanged

\* __main__: the cursor is restored and sys.exit ends the daemon threads.
IndicatorExit ==
    /\ ind.pc = "returned"
    /\ ind' = [ind EXCEPT !.pc = "exited"]
    /\ UNCHANGED spinner_active
    /\ IndicatorUnchanged

\* while spinner_active: of thread i.
ThreadTest(i) ==
    /\ ind.pc # "exited"
    /\ i \in DOMAIN ind.threads
    /\ ind.threads[i].at = "test"
    /\ ind' = [ind EXCEPT !.threads[i].at = IF spinner_active THEN "glyph" ELSE "exited"]
    /\ UNCHANGED spinner_active
    /\ IndicatorUnchanged

\* sys.stdout.write(glyph); sys.stdout.flush() of thread i.
ThreadGlyph(i) ==
    /\ ind.pc # "exited"
    /\ i \in DOMAIN ind.threads
    /\ ind.threads[i].at = "glyph"
    /\ ind' = [ind EXCEPT !.threads[i].at = "bs",
                          !.glyph_after_message = @ \/ ind.message]
    /\ UNCHANGED spinner_active
    /\ IndicatorUnchanged

\* sys.stdout.write("\b"); time.sleep(0.1) of thread i.
ThreadBackspace(i) ==
    /\ ind.pc # "exited"
    /\ i \in DOMAIN ind.threads
    /\ ind.threads[i].at = "bs"
    /\ ind' = [ind EXCEPT !.threads[i].at = "test"]
    /\ UNCHANGED spinner_active
    /\ IndicatorUnchanged

ThreadStep(i) == ThreadTest(i) \/ ThreadGlyph(i) \/ ThreadBackspace(i)

IndicatorMain ==
    \/ IndicatorPrefix
    \/ IndicatorSuffix
    \/ IndicatorSettled
    \/ IndicatorInterrupt
    \/ IndicatorHandler
    \/ IndicatorReturn
    \/ IndicatorExit

NextIndicator == IndicatorMain \/ \E i \in 1..MaxStarts : ThreadStep(i)

\* A run of up to MaxStarts steps, the threads told apart.
InitIndicator ==
    /\ variant \in Variants
    /\ spinner_disabled \in DisplayModes(variant)
    /\ stage = ""
    /\ steps_commands = << >>
    /\ new_line = FALSE
    /\ InitMain
    /\ ExecIdle
    /\ DriverIdle
    /\ DecoderIdle
    /\ dl = NoDownload
    /\ wt = NoWalk
    /\ ind = NoIndicator

\* The main thread and the indicator threads in every interleaving.
SpecIndicator == InitIndicator /\ [][NextIndicator]_vars

\* The same with every live thread scheduled again and again; the main thread may
\* stay in a step for any time.
SpecIndicatorFair ==
    SpecIndicator /\ \A i \in 1..MaxStarts : WF_vars(ThreadStep(i))

\* ================================================================== claims

\* The status tokens of a failure.
FailureTokens == {" Timeout", " Error"}

\* The status tokens the Suffix phase can write.
StatusTokens == FailureTokens \cup {" OK", " Warning"}

IsToken(w) == w.by = "main" /\ w.text \in StatusTokens

\* The indicator threads that have not returned.
AliveThreads ==
    progress_threads["test"] + progress_threads["glyph"] + progress_threads["bs"]

\* C1: when step k is the first to return a non-zero status, exactly steps 1..k
\* have been executed, in table order, no step runs after it, and the stage run
\* raises at most one StepError (one only after a non-zero return).
C1_SequentialAbort ==
    /\ Len(raised) <= 1
    /\ \A k \in 1..Len(returned) :
          returned[k] # 0 => k = Len(returned) /\ Len(executed) = k
    /\ \A k \in 1..Len(executed) : executed[k] = steps_commands[k].description
    /\ Len(returned) <= Len(executed)
    /\ Len(raised) = 1 => returned # << >> /\ returned[Len(returned)] # 0
    /\ pc = "aborted" <=> Len(raised) = 1

\* C1 witness: a three-step stage aborted by its second step.
C1_Witness ==
    /\ pc = "aborted"
    /\ Len(steps_commands) = 3
    /\ Len(executed) = 2
    /\ returned[1] = 0 /\ returned[2] # 0

\* C2 (as claimed): every step run with ignore_errors returns 0.
C2_IgnoreErrorsReturnsZero ==
    \A k \in 1..Len(returned) : steps_commands[k].ignore_errors => returned[k] = 0

\* C3 (as claimed): when the child is still running, its output streams open, at
\* the tick its timeout expires, the call returns primary status 124 and the child
\* is not running any more.
C3_TimeoutKillsChild ==
    (x_pc = "done" /\ at_deadline = "running_open") =>
        /\ x_result[1] = TIMEOUT_STATUS
        /\ proc.state # "running"

C12_NotFoundIs127 ==
    (x_pc = "done" /\ x_exception = "FileNotFoundError") => x_result[1] = 127

\* C14: once a called stage has raised StepError, KeyboardInterrupt or another
\* exception, no later stage is called, and main returns 1.
C14_RaiseEndsTheRun ==
    /\ \A k \in 1..Len(m_outcomes) :
          m_outcomes[k] \in StageRaises =>
              /\ k = Len(m_outcomes)
              /\ m_pc \in {"except", "returned", "exited"}
              /\ m_pc \in {"returned", "exited"} => m_result = << 1 >>
    /\ Len(m_ran) = Len(m_outcomes)

\* C14 witness: the second of eleven stages was interrupted and main returned 1.
C14_Witness ==
    /\ m_pc = "exited"
    /\ start_step = 0
    /\ m_outcomes = << "completed", "KeyboardInterrupt" >>
    /\ m_result = << 1 >>

\* C15: with a valid start_step s the stages called are s, s+1, ... in that order
\* (none below s), all of them up to the last when main returns 0 after calling
\* stages; with an invalid start_step the loop is never entered, no stage is
\* called, and main returns 1 from its start_step check.
C15_StartStep ==
    LET n == Len(MainSteps(variant))
    IN IF start_step \in 0..(n - 1)
       THEN /\ \A k \in 1..Len(m_ran) : m_ran[k] = start_step + k - 1
            /\ Len(m_ran) <= n - start_step
            /\ (m_result = << 0 >> /\ m_ran # << >>) => Len(m_ran) = n - start_step
            /\ m_exc # "ValueError"
       ELSE /\ m_ran = << >>
            /\ m_pc # "loop"
            /\ m_pc = "except" => m_exc = "ValueError"
            /\ (m_exc = "ValueError" /\ m_pc \in {"returned", "exited"}) => m_result = << 1 >>

\* C15 witness: start_step 9 of 11 stages, the last two called, main returned 0.
C15_Witness ==
    /\ m_pc = "exited"
    /\ start_step = 9
    /\ m_ran = << 9, 10 >>
    /\ m_result = << 0 >>

\* The row on the terminal shows the DONE token.
DoneTokenShown == \E k \in DOMAIN sink : sink[k].by = "main" /\ sink[k].text = " OK"

\* C16 (as claimed): a stage function that ran all its steps with status 0 ends
\* with the DONE banner on the terminal (where the Suffix renders tokens), and a
\* stage that aborted shows none.
C16_DoneBannerOnCompletion ==
    /\ (pc = "completed" /\ ~spinner_disabled) => DoneTokenShown
    /\ pc = "aborted" => ~DoneTokenShown

C19_TrueStatusObservable ==
    \A k \in 1..Len(logged) :
        (steps_commands[k].ignore_errors /\ true_status[k].status # 0)
        => logged[k] # << >>

\* The token texts the claim's table gives for an outcome code.
ExpectedTexts(v, ret_val) ==
    IF ret_val = Halves(0) THEN << >>
    ELSE IF ret_val = Halves(InfoType(v, "DONE")) THEN << " OK" >>
    ELSE IF ret_val = Halves(InfoType(v, "WARNING")) THEN << " Warning" >>
    ELSE IF ret_val = Halves(124) THEN << " Timeout" >>
    ELSE << " Error" >>

\* The status tokens on the row, in order.
TokensShown == SelectSeq(sink, IsToken)

\* C17 (as claimed): after a Suffix or Both call the row shows the token of the
\* outcome code: none for 0, " OK" for DONE, " Warning" for WARNING, " Timeout"
\* for 124, " Error" for every other value.
C17_TokenByOutcome ==
    (pc = "printed" /\ ps_call.text_type \in {"SUFFIX", "BOTH"}) =>
        [k \in DOMAIN TokensShown |-> TokensShown[k].text]
            = ExpectedTexts(variant, ps_call.ret_val)

\* C18: for a raw status r = hi * 2^16 + lo with 0 < r < 2^32, the number N of an
\* " Error (N)" token is r when r < 2^31 and r - 2^32 when r >= 2^31 (its low half
\* is lo, its high half hi or hi - 2^16), and lies in [-2^31, 2^31 - 1].
C18_ErrorNumberWrapped ==
    LET r == ps_call.ret_val
    IN (/\ pc = "printed"
        /\ r.hi >= 0 /\ r.hi < 65536
        /\ r # Halves(0))
       => \A k \in DOMAIN sink :
             sink[k].text = " Error" =>
                 /\ sink[k].n % 65536 = r.lo
                 /\ sink[k].n \div 65536 = IF r.hi < 32768 THEN r.hi ELSE r.hi - 65536
                 /\ r.hi < 32768 => sink[k].n > 0
                 /\ r.hi >= 32768 => sink[k].n < 0
                 /\ sink[k].n >= -2147483647 - 1
                 /\ sink[k].n <= 2147483647

\* C18 witness: the raw status 2^32 - 1 was shown as " Error (-1)".
C18_Witness ==
    /\ pc = "printed"
    /\ ps_call.ret_val = [hi |-> 65535, lo |-> 65535]
    /\ \E k \in DOMAIN sink : sink[k] = Write("main", " Error", -1)

\* C4 (as claimed): on a status row no indicator write (glyph or backspace) follows
\* the status token.
C4_NoSpinnerWriteAfterToken ==
    \A i, j \in DOMAIN sink : (i < j /\ IsToken(sink[i])) => sink[j].by # "spinner"

\* C5 (as claimed): at most one indicator thread is alive at any time.
C5_AtMostOneThreadAlive == AliveThreads <= 1

\* C6: a curl step run without ignore_errors returns the extended status when that
\* is not 200, and the exit status when it is 200.
C6_CurlDualStatus ==
    \A k \in 1..Len(returned) :
        (steps_commands[k].process = "curl" /\ ~steps_commands[k].ignore_errors)
        => returned[k] = IF true_status[k].ext_status # 200
                         THEN true_status[k].ext_status
                         ELSE true_status[k].status

\* C6 witness: curl exited 0 with a first line of 404, and the step returned 404.
C6_Witness ==
    /\ returned # << >>
    /\ steps_commands[1].process = "curl"
    /\ ~steps_commands[1].ignore_errors
    /\ true_status[1] = [status |-> 0, ext_status |-> 404]
    /\ returned[1] = 404

\* C7 (as claimed): the StepError a stage raises carries the description of the
\* step that failed.
C7_ErrorCarriesDescription ==
    \A m \in 1..Len(raised) :
        \E c \in DOMAIN raised[m] : raised[m][c] = steps_commands[step].description

\* The scenario of C8: step 1 succeeds, step 2 fails and is ignored, step 3 fails
\* and is not ignored.
C8_Scenario ==
    /\ Len(steps_commands) >= 3
    /\ ~steps_commands[1].ignore_errors
    /\ steps_commands[2].ignore_errors
    /\ ~steps_commands[3].ignore_errors
    /\ Len(true_status) >= 2
    /\ true_status[1].status = 0
    /\ true_status[2].status # 0

\* C8: in the scenario the ignored step returns 0 and does not end the stage, the
\* third step is executed, and when it fails it returns non-zero and the stage
\* aborts there with one StepError, no later step being run.
C8_IgnoredFailureDoesNotAbort ==
    C8_Scenario =>
        /\ Len(returned) >= 2 => returned[2] = 0
        /\ pc \in {"aborted", "completed"} => Len(executed) >= 3
        /\ (Len(true_status) >= 3 /\ true_status[3].status # 0) =>
              /\ Len(executed) = 3
              /\ Len(returned) >= 3 => returned[3] # 0
              /\ pc # "completed"
              /\ pc = "aborted" => step = 3 /\ Len(raised) = 1

\* C8 witness: the scenario, aborted by the third step.
C8_Witness ==
    /\ C8_Scenario
    /\ pc = "aborted"
    /\ step = 3
    /\ returned[2] = 0
    /\ returned[3] # 0

\* The flag is false whenever a step runner returns and between steps, and it has
\* been cleared, and the settle backspace written, before any status token.
FlagClearAtStepBoundary ==
    /\ pc \in {"ps_token", "return", "check", "loop", "aborted", "completed"}
          => ~spinner_active
    /\ \A j \in DOMAIN sink :
          IsToken(sink[j]) => \E i \in 1..(j - 1) : sink[i] = Write("main", "\\b", 0)

\* C9 (as claimed): the flag is never true across a step boundary, and when the
\* status token is about to be written no indicator thread is still running.
C9_StoppedBeforeToken ==
    /\ FlagClearAtStepBoundary
    /\ pc = "ps_token" => AliveThreads = 0

\* C10 (as claimed): when a step runner returns a non-zero status, the row shows
\* exactly one status token, Timeout or Error.
C10_FailureAlwaysRendered ==
    (pc = "check" /\ status # 0) =>
        /\ Cardinality({j \in DOMAIN sink : IsToken(sink[j])}) = 1
        /\ \E j \in DOMAIN sink : sink[j].by = "main" /\ sink[j].text \in FailureTokens

\* C20: wsl_runner_console_decoder never raises: for every input string,
\* characters Latin-1 cannot encode included, the call returns, and what it
\* returns for such a string is the empty result.
C20_DecoderNeverRaises ==
    /\ d_pc # "raised"
    /\ d_pc = "returned" /\ EncodeRaises(input_string) => d_result = << << >> >>

\* The text of what the decoder returned: imcv2_image_creator's lines joined by
\* line feeds, imcv2_wsl_runner's string without the line feed it adds.
RECURSIVE JoinLines(_)
JoinLines(lines) ==
    IF lines = << >> THEN << >>
    ELSE IF Len(lines) = 1 THEN lines[1]
    ELSE lines[1] \o << 10 >> \o JoinLines(Tail(lines))

DecodedText(v, value) ==
    IF v = "imcv2_image_creator" THEN JoinLines(value)
    ELSE IF value # << >> /\ value[Len(value)] = 10 THEN SubSeq(value, 1, Len(value) - 1)
    ELSE value

\* C21: for an input string of printable ASCII characters only, decoding what
\* the decoder returned gives the same result again, neither call raises, and
\* the text returned is the input string.
C21_DecodeIdempotent ==
    (\A i \in DOMAIN input_string : input_string[i] \in 32..126) =>
        /\ d_pc \notin {"raised", "again_raised"}
        /\ d_pc = "again_returned" => d_again = d_result
        /\ d_pc \in {"returned", "again_returned"} =>
               DecodedText(variant, d_result[1]) = input_string

\* C28: what the decoder returns holds only characters 0x20..0x7E:
\* imcv2_image_creator's lines, none of them blank, and imcv2_wsl_runner's string
\* before the one line feed that ends it.
C28_OnlyPrintableAscii ==
    d_pc = "returned" =>
        LET value == d_result[1]
        IN IF variant = "imcv2_image_creator"
           THEN \A k \in DOMAIN value :
                   /\ \A i \in DOMAIN value[k] : value[k][i] \in 32..126
                   /\ \E i \in DOMAIN value[k] : value[k][i] # 32
           ELSE \/ value = << >>
                \/ /\ Len(value) > 1
                   /\ value[Len(value)] = 10
                   /\ \A i \in 1..(Len(value) - 1) : value[i] \in 32..126

\* C28 witness: imcv2_image_creator decoded a tab, "a", a line feed and a space
\* to the one line "a".
C28_Witness ==
    /\ d_pc = "returned"
    /\ variant = "imcv2_image_creator"
    /\ input_string = << 9, 97, 10, 32 >>
    /\ d_result = << << << 97 >> >> >>

\* C22: the steps of a stage run one at a time. A step's work begins only when
\* its Prefix call returns, its Suffix call begins only from its work, the step
\* runner returns only when its Suffix call returns, and the next step's Prefix
\* call begins only from the loop, when every step begun has worked and returned
\* its status: at most one step is ever begun and not yet returned.
C22_StepsOneAtATime ==
    [][ /\ (pc' = "exec" /\ pc # "exec") =>
              (pc = "ps_newline" /\ ps.text_type = "PREFIX")
        /\ (ps'.text_type = "SUFFIX" /\ ps.text_type # "SUFFIX") =>
              (pc = "exec" /\ Len(true_status') = Len(executed))
        /\ (pc' = "return" /\ pc # "return") =>
              (pc = "ps_newline" /\ ps.text_type = "SUFFIX")
        /\ (ps'.text_type = "PREFIX" /\ ps.text_type # "PREFIX") =>
              /\ pc = "loop"
              /\ Len(true_status) = Len(executed)
              /\ Len(returned) = Len(executed)
        /\ Len(executed') - Len(returned') \in {0, 1}
        /\ Len(true_status') - Len(returned') \in {0, 1}
      ]_vars

\* C22 witness: the third step is at work after two steps have returned.
C22_Witness ==
    /\ pc = "exec"
    /\ Len(executed) = 3
    /\ Len(true_status) = 2
    /\ Len(returned) = 2

\* The lines the child has written to one stream, in order.
ChildLines(stream) ==
    LET w == SelectSeq(child_wrote, LAMBDA x : x.stream = stream)
    IN [k \in 1..Len(w) |-> w[k].line]

\* The decoded lines of a sequence of raw lines: the blank ones give nothing.
RECURSIVE DecodedLines(_)
DecodedLines(lines) ==
    IF lines = << >> THEN << >>
    ELSE (IF Head(lines) = "" THEN << >> ELSE << Head(lines) >>) \o DecodedLines(Tail(lines))

\* The number a first line stands for: 200 and 404 are the integers among Lines.
FirstLineValue(lines) ==
    IF lines = << >> THEN 0
    ELSE IF lines[1] = "200" THEN 200
    ELSE IF lines[1] = "404" THEN 404
    ELSE 0

\* C23: when the call returns without an exception having been raised in it,
\* the secondary status is 0 for a command other than curl, and for curl the
\* integer on the first output line (the first line of stdout, or the first
\* line the child wrote to either stream), 0 when that line is no integer or
\* there is no output.
C23_SecondaryStatus ==
    (x_pc = "done" /\ x_exception = "none") =>
        IF x_process # "curl" THEN x_result[2] = 0
        ELSE x_result[2] \in { FirstLineValue(ChildLines("stdout")),
                               FirstLineValue([k \in 1..Len(child_wrote) |->
                                                  child_wrote[k].line]) }

\* C24: when the call returns without an exception having been raised in it,
\* the returned log is the decoded lines of stdout followed by those of stderr,
\* whatever hidden is, and the lines echoed are those same lines when hidden is
\* false and none when it is true.
C24_LogRegardlessOfHidden ==
    (x_pc = "done" /\ x_exception = "none") =>
        LET decoded == DecodedLines(ChildLines("stdout")) \o DecodedLines(ChildLines("stderr"))
        IN /\ Len(x_result) = 3
           /\ x_result[3] = decoded
           /\ x_printed = IF x_hidden THEN << >> ELSE decoded

\* C27: when the child was started and exited with code c before the timeout,
\* the call returns the primary status c, whatever the child wrote.
C27_ExitCodeReturned ==
    (/\ x_pc = "done"
     /\ x_timeout > 0
     /\ proc.state = "exited"
     /\ at_deadline \in {"pending", "exited"}) =>
        /\ x_raised = "none"
        /\ x_result[1] = proc.exit_code

\* The indicator threads created so far.
ThreadsCreated == AliveThreads + progress_threads["exited"]

\* C25: with spinner_disabled true no indicator thread is ever created,
\* spinner_active stays false and no indicator write reaches the terminal,
\* for every stage and step table.
C25_DisabledIndicatorIsNoOp ==
    spinner_disabled =>
        /\ ThreadsCreated = 0
        /\ spinner_active = FALSE
        /\ \A k \in DOMAIN sink : sink[k].by # "spinner"

\* C25 witness: with the indicator disabled two steps have run and returned.
C25_Witness ==
    /\ spinner_disabled
    /\ pc = "check"
    /\ Len(executed) = 2
    /\ Len(returned) = 2

\* C26: a Prefix call has written the description and (unless the indicator is
\* disabled) started the indicator when it returns, for every description, the
\* empty one included; a Both call has started no indicator.
C26_PrefixStartsIndicator ==
    pc = "printed" =>
        /\ ps_call.text_type = "PREFIX" =>
               /\ \E k \in DOMAIN sink : sink[k] = Write("main", "prefix", 0)
               /\ ~spinner_disabled => (spinner_active /\ ThreadsCreated = 1)
        /\ ps_call.text_type = "BOTH" => ThreadsCreated = 0

\* C29: wsl_runner_download_resources returns 0 exactly when curl exited with
\* status 0 and the HTTP status reported is 200, and 1 in every other case: a
\* non-zero exit, a timeout, a missing curl, another or no HTTP status.
C29_DownloadStatus ==
    dl.pc = "returned" =>
        IF dl.result[1] = 0 /\ dl.result[2] = 200
        THEN dl.returned = << 0 >>
        ELSE dl.returned = << 1 >>

\* C29 witness: curl timed out with the HTTP status 200 and 1 was returned.
C29_Witness ==
    /\ dl.pc = "returned"
    /\ dl.result = << 124, 200 >>
    /\ dl.returned = << 1 >>

\* The ancestors the walk looks at: up to the first whose parent is unknown.
Walked ==
    LET unknown == {k \in DOMAIN wt.ancestors : ~wt.ancestors[k].parent_known}
    IN IF unknown = {} THEN DOMAIN wt.ancestors
       ELSE 1..(CHOOSE k \in unknown : \A j \in unknown : k <= j)

\* C30: wsl_runner_is_cmd_in_windows_terminal returns 0 exactly when, among the
\* ancestors walked from the parent upwards, some cmd.exe comes before the first
\* WindowsTerminal.exe and no powershell.exe or pwsh.exe comes before it (names
\* in any letter case); it returns 1 in every other case.
C30_CmdInWindowsTerminal ==
    wt.pc = "returned" =>
        LET IsTerminal(k) == wt.ancestors[k].name = "WindowsTerminal.exe"
            IsCmd(k) == wt.ancestors[k].name \in {"cmd.exe", "Cmd.EXE"}
            IsPowershell(k) == wt.ancestors[k].name \in {"powershell.exe", "pwsh.exe"}
            accepted == \E t \in Walked :
                           /\ IsTerminal(t)
                           /\ \A j \in 1..(t - 1) : ~IsTerminal(j) /\ ~IsPowershell(j)
                           /\ \E j \in 1..(t - 1) : IsCmd(j)
        IN wt.returned = IF accepted THEN << 0 >> ELSE << 1 >>

\* C30 witness: Cmd.EXE under explorer.exe under WindowsTerminal.exe gave 0.
C30_Witness ==
    /\ wt.pc = "returned"
    /\ Len(wt.ancestors) = 3
    /\ wt.ancestors[1].name = "Cmd.EXE"
    /\ wt.ancestors[2].name = "explorer.exe"
    /\ wt.ancestors[3].name = "WindowsTerminal.exe"
    /\ wt.returned = << 0 >>

\* C31: a step run through wsl_runner_run_process with the command curl and
\* ignore_errors false returns 0 only if curl exited with status 0 and its HTTP
\* status is 200.
C31_CurlSuccessNeedsBoth ==
    (/\ pc = "check"
     /\ steps_commands[step].target = "process"
     /\ steps_commands[step].process = "curl"
     /\ ~steps_commands[step].ignore_errors
     /\ returned[Len(returned)] = 0) =>
        true_status[Len(true_status)] = [status |-> 0, ext_status |-> HTTP_OK]

\* C32: the call cannot deadlock with its child: while the call has not
\* returned, the call or the child can always take a step (so that a child
\* that writes its lines and exits always lets the call return).
C32_NoDeadlock ==
    x_pc \in {"read_stdout", "read_stderr", "wait", "unwind"} => ENABLED (ExecProcess \/ Child)

\* C33: the Suffix of a step whose status is not zero never shows " OK" or
\* " Warning": every token on the row is " Timeout" or " Error", and one is
\* shown wherever tokens are rendered, also for a status equal to
\* InfoType.DONE or InfoType.WARNING.
C33_NonZeroNeverSuccess ==
    (/\ pc = "printed"
     /\ ps_call.text_type = "SUFFIX"
     /\ ps_call.ret_val # Halves(0)) =>
        /\ \A k \in DOMAIN TokensShown : TokensShown[k].text \in FailureTokens
        /\ ~spinner_disabled => TokensShown # << >>

\* C34: wsl_runner_main returns 0 from its stage loop only if every stage it
\* called completed successfully: a stage that raised or returned a non-zero
\* status makes main return non-zero.
C34_ZeroOnlyIfAllStagesSucceeded ==
    (m_pc \in {"returned", "exited"} /\ m_result = << 0 >>) =>
        \A k \in DOMAIN m_outcomes : m_outcomes[k] = "completed"

\* Thread i was told to stop.
ThreadStopped(i) == i \in DOMAIN ind.threads /\ ind.threads[i].stopped

\* Thread i has returned, or has ended with the process.
ThreadExited(i) ==
    i \in DOMAIN ind.threads /\ (ind.threads[i].at = "exited" \/ ind.pc = "exited")

\* C35: a thread of the indicator that was told to stop (spinner_active cleared
\* while it ran) is never let past its loop test again by a later start, and it
\* eventually returns, whatever steps follow.
C35_StoppedThreadExits ==
    /\ [][\A i \in DOMAIN ind.threads :
             (ind.threads[i].stopped /\ ind.threads[i].at = "test")
                 => ind'.threads[i].at # "glyph"]_vars
    /\ \A i \in 1..MaxStarts : [](ThreadStopped(i) => <>ThreadExited(i))

\* C36: when a step is cut short by KeyboardInterrupt, the indicator has been
\* stopped by the time the handler's message is printed, and no glyph is written
\* after the message.
C36_InterruptStopsIndicator ==
    ind.message => ~spinner_active /\ ~ind.glyph_after_message

\* C37: when the process exits after the hide-cursor sequence was written, the
\* show-cursor sequence has been written after it, on every way out of
\* wsl_runner_main: completion, StepError, KeyboardInterrupt, another exception,
\* an invalid start_step.
C37_CursorRestored ==
    m_pc = "exited" =>
        \A i \in DOMAIN m_console :
            m_console[i] = "hide_cursor" =>
                \E j \in DOMAIN m_console : j > i /\ m_console[j] = "show_cursor"

\* C37 witness: a stage was interrupted after the cursor was hidden, the handler's
\* message was printed, and the process has exited with the cursor shown again.
C37_Witness ==
    /\ m_pc = "exited"
    /\ m_exc = "KeyboardInterrupt"
    /\ m_result = << 1 >>
    /\ \E i, j, k \in DOMAIN m_console :
          /\ i < j /\ j < k
          /\ m_console[i] = "hide_cursor"
          /\ m_console[j] = HandlerMessage("KeyboardInterrupt")
          /\ m_console[k] = "show_cursor"

====
